---- MODULE Spec2Model ----
(***************************************************************************)
(* Scoring, colour classification and emoji-badge selection of the         *)
(* ski-hut rating app (src/logic/scoring.ts, src/logic/color.ts,           *)
(* src/logic/emoji.ts).                                                     *)
(*                                                                         *)
(* Numbers.  Every rating value, score, average and percentage is a        *)
(* decimal with at most two fractional digits; the model holds it as the   *)
(* integer number of hundredths (4.5 is 450, -20 is -2000, 0.5 is 50).     *)
(* Sums and comparisons of such values are the same on the integers as on  *)
(* the doubles the code uses: multiples of 0.5 are exact doubles, and the  *)
(* comparisons of the code are against exact doubles.                      *)
(*                                                                         *)
(* Optional values.  A field that may be undefined/null is a sequence of   *)
(* length 0 (absent) or 1 (present): <<>> and <<450>>.                     *)
(***************************************************************************)
EXTENDS Integers, Sequences, FiniteSets

VARIABLES
    rating,          \* argument of calculateTotalScore (Partial<Rating>)
    totalScore,      \* its result, <<>> before the call
    value,           \* argument of the validators and of getSelfServiceLabel
    sliderOk,        \* result of isValidSliderValue(value), <<>> before the call
    selfServiceOk,   \* result of isValidSelfService(value), <<>> before the call
    label,           \* result of getSelfServiceLabel(value), "" before the call
    score,           \* first argument of the colour functions
    ratingCount,     \* second, optional argument of the colour functions
    colors,          \* results of the four colour functions, "" before the call
    heap,            \* the EmojiConfig objects, by reference
    arrays,          \* the arrays of references: arrays[1] is EMOJI_CONFIGS,
                     \* the others were made by getAllEmojiConfigs
    handles,         \* the arrays returned to callers, in the order of the calls
    stats,           \* argument of getEmojisForRestaurant (RestaurantStats)
    emojis,          \* its result, <<>> before the call
    category,        \* argument of the last getEmojiForCategory call
    categoryEmoji,   \* its result, <<>> before the call
    mutations,       \* number of changes callers made through returned arrays
    withEggnogScore, \* calculateTotalScore({...rating, eggnog: true}), <<>> before
    avgTotalScore,   \* restaurant_stats.avg_total_score of restaurant 1, <<>>
                     \* where the view is not looked at
    history,         \* the calls of a session, in order: operation, argument, result
    ratingsTable,    \* the rows of table ratings
    favoritesTable,  \* the rows of table favorites
    calls,           \* the API calls in flight or returned, by call number
    votesTable,      \* the rows of table comment_votes
    photosTable,     \* the rows of table photos
    storageFiles,    \* the paths of the files in storage bucket photos
    listInput,       \* props and state of RestaurantListTab: the restaurants,
                     \* the sort key and the three filters
    listed,          \* its filteredRestaurants, <<>> before it is rendered
    grayedOut,       \* whether a filter of the map tab excludes the restaurant
    display          \* the score colours each screen shows, "" before it renders

scoringVars == <<rating, totalScore>>

validatorVars == <<value, sliderOk, selfServiceOk, label>>

colorVars == <<score, ratingCount, colors>>

tableVars == <<heap, arrays, handles, mutations>>

emojiVars == <<stats, emojis, category, categoryEmoji>>

appVars ==
    <<votesTable, photosTable, storageFiles, listInput, listed, grayedOut, display>>

restVars ==
    <<withEggnogScore, avgTotalScore, history, ratingsTable, favoritesTable, calls,
      appVars>>

vars == <<scoringVars, validatorVars, colorVars, tableVars, emojiVars, restVars>>

----------------------------------------------------------------------------
(* Optional values *)

Absent == <<>>

Some(v) == <<v>>

\* a ?? b of the code: b when a is undefined or null.
Nullish(a, b) == IF a = Absent THEN b ELSE a[1]

\* The truthiness test of (x ? 5 : 0) on an optional boolean.
Truthy(a) == IF a = Absent THEN FALSE ELSE a[1]

\* The % of the code: the remainder takes the sign of the dividend.
JsRem(a, b) == IF a >= 0 THEN a % b ELSE 0 - ((0 - a) % b)

----------------------------------------------------------------------------
(* src/logic/scoring.ts *)

\* Mutant: the seven category values averaged instead of summed.
calculateTotalScore_averaged(r) ==
    ((Nullish(r.self_service, 0) + Nullish(r.service, 0) +
      Nullish(r.ski_haserl, 0) + Nullish(r.food, 0) +
      Nullish(r.sun_terrace, 0) + Nullish(r.interior, 0) +
      Nullish(r.apres_ski, 0)) \div 7) +
    (IF Truthy(r.eggnog) THEN 500 ELSE 0)

\* Mutant: the sum rounded down to whole points (Math.floor).
calculateTotalScore_floored(r) ==
    LET sum == Nullish(r.self_service, 0) + Nullish(r.service, 0) +
               Nullish(r.ski_haserl, 0) + Nullish(r.food, 0) +
               Nullish(r.sun_terrace, 0) + Nullish(r.interior, 0) +
               Nullish(r.apres_ski, 0) +
               (IF Truthy(r.eggnog) THEN 500 ELSE 0)
    IN  sum - (sum % 100)

\* Mutant: the bonus given whenever eggnog is set, also to false.
calculateTotalScore_eggnogPresent(r) ==
    Nullish(r.self_service, 0) + Nullish(r.service, 0) +
    Nullish(r.ski_haserl, 0) + Nullish(r.food, 0) +
    Nullish(r.sun_terrace, 0) + Nullish(r.interior, 0) +
    Nullish(r.apres_ski, 0) +
    (IF r.eggnog # Absent THEN 500 ELSE 0)

\* Mutant: the sum clamped to the documented range [-20, 35].
calculateTotalScore_clamped(r) ==
    LET sum == Nullish(r.self_service, 0) + Nullish(r.service, 0) +
               Nullish(r.ski_haserl, 0) + Nullish(r.food, 0) +
               Nullish(r.sun_terrace, 0) + Nullish(r.interior, 0) +
               Nullish(r.apres_ski, 0) +
               (IF Truthy(r.eggnog) THEN 500 ELSE 0)
    IN  IF sum < -2000 THEN -2000 ELSE IF sum > 3500 THEN 3500 ELSE sum

calculateTotalScore(r) ==
    Nullish(r.self_service, 0) +
    Nullish(r.service, 0) +
    Nullish(r.ski_haserl, 0) +
    Nullish(r.food, 0) +
    Nullish(r.sun_terrace, 0) +
    Nullish(r.interior, 0) +
    Nullish(r.apres_ski, 0) +
    (IF Truthy(r.eggnog) THEN 500 ELSE 0)

\* Mutant: the step test alone, the range test dropped.
isValidSliderValue_noRange(v) == JsRem(v * 10, 500) = 0

isValidSliderValue(v) ==
    IF v < 0 \/ v > 500
    THEN FALSE
    ELSE LET remainder == JsRem(v * 10, 500)
         IN  remainder = 0

\* Mutant: a range test in place of the three exact values.
isValidSelfService_range(v) == v >= -2000 /\ v <= 0 /\ JsRem(v, 500) = 0

isValidSelfService(v) == v = -2000 \/ v = -1000 \/ v = 0

\* A value outside the three cases falls out of the switch: undefined ("").
getSelfServiceLabel(v) ==
    CASE v = -2000 -> "Nur Selbstbedienung"
      [] v = -1000 -> "Teilweise Selbstbedienung"
      [] v = 0     -> "Mit Bedienung"
      [] OTHER     -> ""

----------------------------------------------------------------------------
(* src/logic/color.ts *)

\* Mutant: the upper edge of the Low band inclusive (score <= 10).
getScoreColor_inclusive(s, rc) ==
    IF rc # Absent /\ rc[1] = 0 THEN "#9CA3AF"
    ELSE IF s < 0 THEN "#EF4444"
    ELSE IF s >= 0 /\ s <= 1000 THEN "#F59E0B"
    ELSE IF s > 1000 /\ s < 2000 THEN "#84CC16"
    ELSE "#10B981"

\* Mutant: gray for every count that is missing or not positive.
getScoreColor_notPositive(s, rc) ==
    IF rc = Absent \/ rc[1] <= 0 THEN "#9CA3AF"
    ELSE IF s < 0 THEN "#EF4444"
    ELSE IF s >= 0 /\ s < 1000 THEN "#F59E0B"
    ELSE IF s >= 1000 /\ s < 2000 THEN "#84CC16"
    ELSE "#10B981"

getScoreColor(s, rc) ==
    IF rc # Absent /\ rc[1] = 0 THEN "#9CA3AF"
    ELSE IF s < 0 THEN "#EF4444"
    ELSE IF s >= 0 /\ s < 1000 THEN "#F59E0B"
    ELSE IF s >= 1000 /\ s < 2000 THEN "#84CC16"
    ELSE "#10B981"

getScoreBackgroundColor(s, rc) ==
    IF rc # Absent /\ rc[1] = 0 THEN "#F3F4F6"
    ELSE IF s < 0 THEN "#FEE2E2"
    ELSE IF s >= 0 /\ s < 1000 THEN "#FEF3C7"
    ELSE IF s >= 1000 /\ s < 2000 THEN "#ECFCCB"
    ELSE "#D1FAE5"

\* Mutant: the negative band tested before the rating count.
getScoreTextColor_scoreFirst(s, rc) ==
    IF s < 0 THEN "#991B1B"
    ELSE IF rc # Absent /\ rc[1] = 0 THEN "#4B5563"
    ELSE IF s >= 0 /\ s < 1000 THEN "#92400E"
    ELSE IF s >= 1000 /\ s < 2000 THEN "#3F6212"
    ELSE "#065F46"

getScoreTextColor(s, rc) ==
    IF rc # Absent /\ rc[1] = 0 THEN "#4B5563"
    ELSE IF s < 0 THEN "#991B1B"
    ELSE IF s >= 0 /\ s < 1000 THEN "#92400E"
    ELSE IF s >= 1000 /\ s < 2000 THEN "#3F6212"
    ELSE "#065F46"

\* Mutant: the border's Good band starting at 10.5 instead of 10.
getScoreBorderColor_drift(s, rc) ==
    IF rc # Absent /\ rc[1] = 0 THEN "#D1D5DB"
    ELSE IF s < 0 THEN "#FCA5A5"
    ELSE IF s >= 0 /\ s < 1050 THEN "#FCD34D"
    ELSE IF s >= 1050 /\ s < 2000 THEN "#BEF264"
    ELSE "#6EE7B7"

getScoreBorderColor(s, rc) ==
    IF rc # Absent /\ rc[1] = 0 THEN "#D1D5DB"
    ELSE IF s < 0 THEN "#FCA5A5"
    ELSE IF s >= 0 /\ s < 1000 THEN "#FCD34D"
    ELSE IF s >= 1000 /\ s < 2000 THEN "#BEF264"
    ELSE "#6EE7B7"

----------------------------------------------------------------------------
(* src/logic/emoji.ts *)

(* The emoji strings are opaque to the code; the model names them:         *)
(* "bottle" (apres-ski), "plate" (food), "cook" (service), "sun" (sun      *)
(* terrace), "dancer" (ski haserl), "couch" (interior), and "eggnog" for   *)
(* the bonus badge.                                                        *)
EMOJI_CONFIGS ==
    << [category |-> "avg_apres_ski",   emoji |-> "bottle", threshold |-> 450, priority |-> 1],
       [category |-> "avg_food",        emoji |-> "plate",  threshold |-> 450, priority |-> 2],
       [category |-> "avg_service",     emoji |-> "cook",   threshold |-> 450, priority |-> 3],
       [category |-> "avg_sun_terrace", emoji |-> "sun",    threshold |-> 450, priority |-> 4],
       [category |-> "avg_ski_haserl",  emoji |-> "dancer", threshold |-> 450, priority |-> 5],
       [category |-> "avg_interior",    emoji |-> "couch",  threshold |-> 450, priority |-> 6] >>

\* stats[key]: undefined when the record has no such property.
Property(st, key) == IF key \in DOMAIN st THEN st[key] ELSE Absent

\* a > t and a >= t on an optional number: undefined and null compare false
\* against the positive thresholds of the code.
JsGt(a, t) == a # Absent /\ a[1] > t

JsGe(a, t) == a # Absent /\ a[1] >= t

\* Mutant: the threshold itself qualifies (>= in place of >).
Qualifies_atThreshold(config, st) ==
    JsGe(Property(st, config.category), config.threshold)

\* Mutant: an average that is missing counts as the best average, 5.
Qualifies_absentAsBest(config, st) ==
    JsGt(Nullish(Property(st, config.category), Some(500)), config.threshold)

\* The callback of the filter.
Qualifies(config, st) ==
    LET v == Property(st, config.category)
    IN  JsGt(v, config.threshold)

\* Mutant: the bonus needs more than half of the ratings (> in place of >=).
EggnogApplies_strict(st) == JsGt(st.eggnog_percentage, 50)

\* The test of the bonus badge.
EggnogApplies(st) == JsGe(st.eggnog_percentage, 50)

\* Array.prototype.filter: a new array of the elements that pass.
Filter(arr, h, st) == SelectSeq(arr, LAMBDA o : Qualifies(h[o], st))

\* x placed into the sorted s behind every element that does not compare
\* greater (the sort is stable).
InsertByPriority(s, x, h) ==
    LET k == Cardinality({i \in 1 .. Len(s) : h[s[i]].priority - h[x].priority <= 0})
    IN  SubSeq(s, 1, k) \o <<x>> \o SubSeq(s, k + 1, Len(s))

RECURSIVE SortByPriority(_, _)
\* Array.prototype.sort with (a, b) => a.priority - b.priority.
SortByPriority(arr, h) ==
    IF arr = <<>> THEN <<>>
    ELSE InsertByPriority(SortByPriority(SubSeq(arr, 1, Len(arr) - 1), h),
                          arr[Len(arr)], h)

\* Array.prototype.slice(0, n).
SliceFirst(arr, n) == SubSeq(arr, 1, IF Len(arr) < n THEN Len(arr) ELSE n)

\* Mutant: the entries that do not qualify removed from EMOJI_CONFIGS
\* itself, and EMOJI_CONFIGS sorted, in place of a filtered copy.
ArraysAfterSelection_inPlace(arrs, h, st) ==
    [arrs EXCEPT ![1] = SortByPriority(Filter(@, h, st), h)]

\* The arrays that existed before getEmojisForRestaurant, as the call
\* leaves them: filter makes a new array, sort orders that new array in
\* place, slice and map make further arrays; none of them outlives the call.
ArraysAfterSelection(arrs, h, st) ==
    LET filtered == Append(arrs, Filter(arrs[1], h, st))
        t == Len(filtered)
        sorted == [filtered EXCEPT ![t] = SortByPriority(@, h)]
    IN  SubSeq(sorted, 1, Len(arrs))

\* configs is the array EMOJI_CONFIGS, h the heap its references point into.
getEmojisForRestaurant(configs, h, st) ==
    LET selected == SliceFirst(SortByPriority(Filter(configs, h, st), h), 3)
        qualifyingEmojis == [i \in 1 .. Len(selected) |-> h[selected[i]].emoji]
    IN  IF EggnogApplies(st)
        THEN Append(qualifyingEmojis, "eggnog")
        ELSE qualifyingEmojis

\* Mutant: the name compared without the avg_ prefix.
getEmojiForCategory_noPrefix(configs, h, cat) ==
    LET found == {i \in 1 .. Len(configs) : h[configs[i]].category = cat}
    IN  IF found = {} THEN ""
        ELSE h[configs[CHOOSE i \in found : \A j \in found : i <= j]].emoji

getEmojiForCategory(configs, h, cat) ==
    LET found == {i \in 1 .. Len(configs) : h[configs[i]].category = "avg_" \o cat}
    IN  IF found = {} THEN ""
        ELSE h[configs[CHOOSE i \in found : \A j \in found : i <= j]].emoji

\* [...EMOJI_CONFIGS]: a new array holding the same references.
\* Mutant: the table itself is returned, not a copy.
getAllEmojiConfigs_noCopy(arrs) == [arrays |-> arrs, ref |-> 1]

getAllEmojiConfigs(arrs) ==
    [arrays |-> Append(arrs, arrs[1]), ref |-> Len(arrs) + 1]

----------------------------------------------------------------------------
(* The inputs the checks draw from *)

\* Largest |score| handed to the colour functions, in points.
ScoreSpan == 21

\* Largest |value| handed to the validators, in points.
ValueSpan == 31

\* Largest rating count handed to the colour functions.
MaxRatingCount == 2

\* self_service: absent, the three levels, and a value off the levels.
SelfServiceInputs == {Absent, Some(-2000), Some(-1000), Some(0), Some(-1500)}

\* A slider: absent, 0, 0.5, 5, and two values off the step and out of
\* range, 7.25 and -1.25.  Every input is a multiple of 0.25, which a
\* double holds exactly and whose sums a double adds without rounding, so
\* the count of hundredths is the value the code computes.
SliderInputs == {Absent, Some(0), Some(50), Some(500), Some(725), Some(-125)}

EggnogInputs == {Absent, Some(FALSE), Some(TRUE)}

RatingInputs ==
    [self_service : SelfServiceInputs,
     service : SliderInputs, ski_haserl : SliderInputs, food : SliderInputs,
     sun_terrace : SliderInputs, interior : SliderInputs,
     apres_ski : SliderInputs,
     eggnog : EggnogInputs]

ValueInputs == (0 - ValueSpan * 100) .. (ValueSpan * 100)

ScoreInputs == (0 - ScoreSpan * 100) .. (ScoreSpan * 100)

RatingCountInputs == {Absent} \cup {Some(n) : n \in -1 .. MaxRatingCount}

NoColors == [fill |-> "", background |-> "", text |-> "", border |-> ""]

\* A category average: absent, negative, exactly 4.5, 4.51, and 6.
AverageInputs == {Absent, Some(-100), Some(450), Some(451), Some(600)}

\* eggnog_percentage: absent, 0, 0.49, exactly 0.5, and 1.
PercentageInputs == {Absent, Some(0), Some(49), Some(50), Some(100)}

StatsInputs ==
    [avg_apres_ski : AverageInputs, avg_food : AverageInputs,
     avg_service : AverageInputs, avg_sun_terrace : AverageInputs,
     avg_ski_haserl : AverageInputs, avg_interior : AverageInputs,
     eggnog_percentage : PercentageInputs,
     rating_count : {0, 3}]

\* The two examples of the documentation, and a restaurant whose six
\* averages are all exactly 4.5.
TableStats ==
    { [avg_apres_ski |-> Some(480), avg_food |-> Some(460),
       avg_service |-> Some(470), avg_sun_terrace |-> Some(430),
       avg_ski_haserl |-> Some(400), avg_interior |-> Some(420),
       eggnog_percentage |-> Some(60), rating_count |-> 3],
      [avg_apres_ski |-> Some(430), avg_food |-> Some(490),
       avg_service |-> Some(450), avg_sun_terrace |-> Some(480),
       avg_ski_haserl |-> Some(300), avg_interior |-> Some(200),
       eggnog_percentage |-> Some(20), rating_count |-> 3],
      [avg_apres_ski |-> Some(450), avg_food |-> Some(450),
       avg_service |-> Some(450), avg_sun_terrace |-> Some(450),
       avg_ski_haserl |-> Some(450), avg_interior |-> Some(450),
       eggnog_percentage |-> Some(50), rating_count |-> 3] }

\* Category names handed to getEmojiForCategory: the six configured ones
\* and three that are not in the table.
CategoryInputs ==
    {"apres_ski", "food", "service", "sun_terrace", "ski_haserl", "interior",
     "eggnog", "avg_food", ""}

\* Most getAllEmojiConfigs calls, and most changes a caller makes through
\* the arrays it was handed.
MaxCalls == 2

MaxMutations == 2

\* The reference of the i-th entry of EMOJI_CONFIGS is i; the next
\* reference is an EmojiConfig object a caller made itself.
CallerObject == Len(EMOJI_CONFIGS) + 1

CallerEntry ==
    [category |-> "avg_interior", emoji |-> "star", threshold |-> 0, priority |-> 0]

InitialHeap ==
    [o \in 1 .. CallerObject |->
        IF o = CallerObject THEN CallerEntry ELSE EMOJI_CONFIGS[o]]

InitialArrays == << [i \in 1 .. Len(EMOJI_CONFIGS) |-> i] >>

\* The values of the variables an operation group does not use.
IdleRating ==
    [self_service |-> Absent, service |-> Absent, ski_haserl |-> Absent,
     food |-> Absent, sun_terrace |-> Absent, interior |-> Absent,
     apres_ski |-> Absent, eggnog |-> Absent]

ScoringIdle == rating = IdleRating /\ totalScore = Absent

ValidatorsIdle ==
    value = 0 /\ sliderOk = Absent /\ selfServiceOk = Absent /\ label = ""

ColorIdle == score = 0 /\ ratingCount = Absent /\ colors = NoColors

TableIdle ==
    heap = InitialHeap /\ arrays = InitialArrays /\ handles = <<>> /\ mutations = 0

IdleStats ==
    [avg_apres_ski |-> Absent, avg_food |-> Absent, avg_service |-> Absent,
     avg_sun_terrace |-> Absent, avg_ski_haserl |-> Absent,
     avg_interior |-> Absent, eggnog_percentage |-> Absent, rating_count |-> 0]

EmojiIdle ==
    stats = IdleStats /\ emojis = Absent /\ category = "" /\ categoryEmoji = Absent

\* No call has been made and the tables are empty.
NoCalls == <<>>

\* The list tab without restaurants, sorted by total score, no filter set.
IdleList ==
    [restaurants |-> <<>>, sortBy |-> "avg_total_score", onlyService |-> FALSE,
     onlyEggnog |-> FALSE, onlySchirmbar |-> FALSE]

\* No screen has rendered a score.
NoDisplay ==
    [list_fill |-> "", list_background |-> "", pin |-> "", popup_fill |-> "",
     popup_background |-> "", detail_fill |-> "", detail_background |-> ""]

AppIdle ==
    /\ votesTable = {}
    /\ photosTable = {}
    /\ storageFiles = {}
    /\ listInput = IdleList
    /\ listed = Absent
    /\ grayedOut = FALSE
    /\ display = NoDisplay

RestIdle ==
    /\ AppIdle
    /\ withEggnogScore = Absent
    /\ avgTotalScore = Absent
    /\ history = <<>>
    /\ ratingsTable = {}
    /\ favoritesTable = {}
    /\ calls = NoCalls

----------------------------------------------------------------------------
(* Score Calculator: the caller holds a rating and asks for its total *)

InitScoring ==
    /\ RestIdle
    /\ rating \in RatingInputs
    /\ totalScore = Absent
    /\ ValidatorsIdle
    /\ ColorIdle
    /\ TableIdle
    /\ EmojiIdle

CallCalculateTotalScore ==
    /\ totalScore' = Some(calculateTotalScore(rating))
    /\ UNCHANGED <<rating, validatorVars, colorVars, tableVars, emojiVars>>
    /\ UNCHANGED restVars

NextScoring == CallCalculateTotalScore

SpecScoring == InitScoring /\ [][NextScoring]_vars

----------------------------------------------------------------------------
(* The eggnog bonus: the caller scores a rating without the bonus, and the *)
(* same rating with eggnog set to true ({ ...base, eggnog: true })         *)

WithoutEggnogInputs == {r \in RatingInputs : r.eggnog # Some(TRUE)}

InitEggnog ==
    /\ rating \in WithoutEggnogInputs
    /\ totalScore = Absent
    /\ ValidatorsIdle
    /\ ColorIdle
    /\ TableIdle
    /\ EmojiIdle
    /\ RestIdle

CallCalculateTotalScoreWithEggnog ==
    /\ withEggnogScore' =
          Some(calculateTotalScore([rating EXCEPT !.eggnog = Some(TRUE)]))
    /\ UNCHANGED <<scoringVars, validatorVars, colorVars, tableVars, emojiVars>>
    /\ UNCHANGED <<avgTotalScore, history, ratingsTable, favoritesTable, calls>>
    /\ UNCHANGED appVars

NextEggnog ==
    \/ CallCalculateTotalScore
    \/ CallCalculateTotalScoreWithEggnog

SpecEggnog == InitEggnog /\ [][NextEggnog]_vars

----------------------------------------------------------------------------
(* Validators: the caller holds a candidate value *)

InitValidators ==
    /\ RestIdle
    /\ value \in ValueInputs
    /\ sliderOk = Absent
    /\ selfServiceOk = Absent
    /\ label = ""
    /\ ScoringIdle
    /\ ColorIdle
    /\ TableIdle
    /\ EmojiIdle

CallIsValidSliderValue ==
    /\ sliderOk' = Some(isValidSliderValue(value))
    /\ UNCHANGED <<value, selfServiceOk, label>>
    /\ UNCHANGED <<scoringVars, colorVars, tableVars, emojiVars>>
    /\ UNCHANGED restVars

CallIsValidSelfService ==
    /\ selfServiceOk' = Some(isValidSelfService(value))
    /\ UNCHANGED <<value, sliderOk, label>>
    /\ UNCHANGED <<scoringVars, colorVars, tableVars, emojiVars>>
    /\ UNCHANGED restVars

\* The parameter type is -20 | -10 | 0: the compiler admits no other call.
CallGetSelfServiceLabel ==
    /\ isValidSelfService(value)
    /\ label' = getSelfServiceLabel(value)
    /\ UNCHANGED <<value, sliderOk, selfServiceOk>>
    /\ UNCHANGED <<scoringVars, colorVars, tableVars, emojiVars>>
    /\ UNCHANGED restVars

NextValidators ==
    \/ CallIsValidSliderValue
    \/ CallIsValidSelfService
    \/ CallGetSelfServiceLabel

SpecValidators == InitValidators /\ [][NextValidators]_vars

----------------------------------------------------------------------------
(* Colour classifier: the caller holds (score, ratingCount) and asks each  *)
(* of the four colour functions for its colour                             *)

InitColor ==
    /\ RestIdle
    /\ score \in ScoreInputs
    /\ ratingCount \in RatingCountInputs
    /\ colors = NoColors
    /\ ScoringIdle
    /\ ValidatorsIdle
    /\ TableIdle
    /\ EmojiIdle

CallGetScoreColor ==
    /\ colors' = [colors EXCEPT !.fill = getScoreColor(score, ratingCount)]
    /\ UNCHANGED <<score, ratingCount>>
    /\ UNCHANGED <<scoringVars, validatorVars, tableVars, emojiVars>>
    /\ UNCHANGED restVars

CallGetScoreBackgroundColor ==
    /\ colors' = [colors EXCEPT
                    !.background = getScoreBackgroundColor(score, ratingCount)]
    /\ UNCHANGED <<score, ratingCount>>
    /\ UNCHANGED <<scoringVars, validatorVars, tableVars, emojiVars>>
    /\ UNCHANGED restVars

CallGetScoreTextColor ==
    /\ colors' = [colors EXCEPT !.text = getScoreTextColor(score, ratingCount)]
    /\ UNCHANGED <<score, ratingCount>>
    /\ UNCHANGED <<scoringVars, validatorVars, tableVars, emojiVars>>
    /\ UNCHANGED restVars

CallGetScoreBorderColor ==
    /\ colors' = [colors EXCEPT
                    !.border = getScoreBorderColor(score, ratingCount)]
    /\ UNCHANGED <<score, ratingCount>>
    /\ UNCHANGED <<scoringVars, validatorVars, tableVars, emojiVars>>
    /\ UNCHANGED restVars

NextColor ==
    \/ CallGetScoreColor
    \/ CallGetScoreBackgroundColor
    \/ CallGetScoreTextColor
    \/ CallGetScoreBorderColor

SpecColor == InitColor /\ [][NextColor]_vars

----------------------------------------------------------------------------
(* Badge selector: the caller holds a restaurant's statistics *)

InitEmoji ==
    /\ RestIdle
    /\ stats \in StatsInputs
    /\ emojis = Absent
    /\ category = ""
    /\ categoryEmoji = Absent
    /\ TableIdle
    /\ ScoringIdle
    /\ ValidatorsIdle
    /\ ColorIdle

CallGetEmojisForRestaurant ==
    /\ emojis' = Some(getEmojisForRestaurant(arrays[1], heap, stats))
    /\ arrays' = ArraysAfterSelection(arrays, heap, stats)
    /\ UNCHANGED <<heap, handles, mutations>>
    /\ UNCHANGED <<stats, category, categoryEmoji>>
    /\ UNCHANGED <<scoringVars, validatorVars, colorVars>>
    /\ UNCHANGED restVars

NextEmoji == CallGetEmojisForRestaurant

SpecEmoji == InitEmoji /\ [][NextEmoji]_vars

----------------------------------------------------------------------------
(* The configuration table and its accessors *)

InitTable ==
    /\ RestIdle
    /\ stats \in TableStats
    /\ emojis = Absent
    /\ category = ""
    /\ categoryEmoji = Absent
    /\ TableIdle
    /\ ScoringIdle
    /\ ValidatorsIdle
    /\ ColorIdle

CallGetEmojiForCategory ==
    \E c \in CategoryInputs :
        /\ category' = c
        /\ categoryEmoji' = Some(getEmojiForCategory(arrays[1], heap, c))
        /\ UNCHANGED <<stats, emojis>>
        /\ UNCHANGED <<scoringVars, validatorVars, colorVars, tableVars>>
        /\ UNCHANGED restVars

CallGetAllEmojiConfigs ==
    /\ Len(handles) < MaxCalls
    /\ LET r == getAllEmojiConfigs(arrays)
       IN  /\ arrays' = r.arrays
           /\ handles' = Append(handles, r.ref)
    /\ UNCHANGED <<heap, mutations>>
    /\ UNCHANGED <<scoringVars, validatorVars, colorVars, emojiVars>>
    /\ UNCHANGED restVars

NextTable ==
    \/ CallGetEmojisForRestaurant
    \/ CallGetEmojiForCategory
    \/ CallGetAllEmojiConfigs

SpecTable == InitTable /\ [][NextTable]_vars

----------------------------------------------------------------------------
(* A caller of getAllEmojiConfigs changing what it was handed.  The array  *)
(* and the objects in it are ordinary mutable JavaScript values; a caller  *)
(* reaches exactly the arrays it was handed and the objects they hold.     *)

\* The values a caller assigns to the fields of an entry.
AssignInputs ==
    [category |-> {"avg_interior"}, emoji |-> {"star"},
     threshold |-> {0, 500}, priority |-> {0, 9}]

Reverse(arr) == [i \in 1 .. Len(arr) |-> arr[Len(arr) + 1 - i]]

CallerFrame ==
    /\ mutations' = mutations + 1
    /\ UNCHANGED handles
    /\ UNCHANGED <<scoringVars, validatorVars, colorVars, emojiVars>>
    /\ UNCHANGED restVars

\* returned.reverse()
CallerReverse ==
    \E k \in 1 .. Len(handles) :
        /\ mutations < MaxMutations
        /\ arrays' = [arrays EXCEPT ![handles[k]] = Reverse(@)]
        /\ UNCHANGED heap
        /\ CallerFrame

\* returned.pop()
CallerPop ==
    \E k \in 1 .. Len(handles) :
        /\ mutations < MaxMutations
        /\ arrays[handles[k]] # <<>>
        /\ arrays' = [arrays EXCEPT ![handles[k]] = SubSeq(@, 1, Len(@) - 1)]
        /\ UNCHANGED heap
        /\ CallerFrame

\* returned.push(entry)
CallerPush ==
    \E k \in 1 .. Len(handles) :
        /\ mutations < MaxMutations
        /\ arrays' = [arrays EXCEPT ![handles[k]] = Append(@, CallerObject)]
        /\ UNCHANGED heap
        /\ CallerFrame

\* returned[i] = entry
CallerReplace ==
    \E k \in 1 .. Len(handles) :
        \E i \in 1 .. Len(arrays[handles[k]]) :
            /\ mutations < MaxMutations
            /\ arrays' = [arrays EXCEPT ![handles[k]][i] = CallerObject]
            /\ UNCHANGED heap
            /\ CallerFrame

\* returned[i].field = v
CallerAssign ==
    \E k \in 1 .. Len(handles) :
        \E i \in 1 .. Len(arrays[handles[k]]) :
            \E f \in DOMAIN AssignInputs :
                \E v \in AssignInputs[f] :
                    /\ mutations < MaxMutations
                    /\ heap' = [heap EXCEPT ![arrays[handles[k]][i]][f] = v]
                    /\ UNCHANGED arrays
                    /\ CallerFrame

NextCaller ==
    \/ NextTable
    \/ CallerReverse
    \/ CallerPop
    \/ CallerPush
    \/ CallerReplace
    \/ CallerAssign

SpecCaller == InitTable /\ [][NextCaller]_vars

----------------------------------------------------------------------------
(* Every operation *)

Init ==
    \/ InitScoring
    \/ InitValidators
    \/ InitColor
    \/ InitEmoji
    \/ InitTable

Next ==
    \/ NextScoring
    \/ NextValidators
    \/ NextColor
    \/ NextCaller

Spec == Init /\ [][Next]_vars

----------------------------------------------------------------------------
(* Properties of the Score Calculator and the validators *)

SliderFields ==
    <<"service", "ski_haserl", "food", "sun_terrace", "interior", "apres_ski">>

NumericFields == <<"self_service">> \o SliderFields

RECURSIVE SumPresent(_, _)
\* The sum of the fields of r named in fs that are present.
SumPresent(r, fs) ==
    IF fs = <<>> THEN 0
    ELSE (IF r[Head(fs)] = Absent THEN 0 ELSE r[Head(fs)][1])
         + SumPresent(r, Tail(fs))

Bonus(r) == IF r.eggnog = Some(TRUE) THEN 500 ELSE 0

\* C1: calculateTotalScore returns self_service + the six sliders + (5 if
\* eggnog is true), every absent numeric field counting 0 and an absent
\* eggnog counting false; the result is the sum, not divided or averaged.
C1_TotalIsSum ==
    totalScore # Absent =>
        totalScore[1] = SumPresent(rating, NumericFields) + Bonus(rating)

\* A partial rating (-10, service absent, food 5, apres_ski 0.5, eggnog)
\* has been scored: -10 + 5 + 0.5 + 5 = 0.5.
C1_Witness ==
    /\ totalScore = Some(50)
    /\ rating.self_service = Some(-1000)
    /\ rating.service = Absent
    /\ rating.food = Some(500)
    /\ rating.apres_ski = Some(50)
    /\ rating.eggnog = Some(TRUE)

ValidSliderValues == {k * 50 : k \in 0 .. 10}

ValidRating(r) ==
    /\ r.self_service \in {Some(-2000), Some(-1000), Some(0)}
    /\ \A i \in 1 .. Len(SliderFields) :
          r[SliderFields[i]] = Absent \/ r[SliderFields[i]][1] \in ValidSliderValues

AllSliders(r, S) == \A i \in 1 .. Len(SliderFields) : r[SliderFields[i]] \in S

\* C2: for a valid rating the total lies in [-20, 35] and is an exact
\* multiple of 0.5; it is -20 exactly when self_service = -20, every slider
\* is 0 or absent and there is no eggnog, and 35 exactly when
\* self_service = 0, all six sliders are 5 and eggnog is true.
C2_RangeAndBounds ==
    (totalScore # Absent /\ ValidRating(rating)) =>
        /\ totalScore[1] >= -2000
        /\ totalScore[1] <= 3500
        /\ totalScore[1] % 50 = 0
        /\ totalScore[1] = -2000 <=>
              /\ rating.self_service = Some(-2000)
              /\ AllSliders(rating, {Absent, Some(0)})
              /\ rating.eggnog # Some(TRUE)
        /\ totalScore[1] = 3500 <=>
              /\ rating.self_service = Some(0)
              /\ AllSliders(rating, {Some(500)})
              /\ rating.eggnog = Some(TRUE)

\* The maximum has been computed for a valid rating.
C2_Witness ==
    /\ totalScore = Some(3500)
    /\ ValidRating(rating)
    /\ AllSliders(rating, {Some(500)})

\* C9: isValidSliderValue(v) is true exactly for the eleven values
\* 0, 0.5, ..., 5, and false below 0, above 5 and off the 0.5 step.
C9_SliderValues ==
    sliderOk # Absent => (sliderOk[1] <=> value \in ValidSliderValues)

\* 4.9 has been rejected.
C9_Witness == value = 490 /\ sliderOk = Some(FALSE)

\* C10: isValidSelfService(v) is true exactly for -20, -10 and 0.
C10_SelfServiceValues ==
    selfServiceOk # Absent =>
        (selfServiceOk[1] <=> value \in {-2000, -1000, 0})

\* -15 has been rejected.
C10_Witness == value = -1500 /\ selfServiceOk = Some(FALSE)

----------------------------------------------------------------------------
(* Properties of the colour classifier *)

Channels == {"fill", "background", "text", "border"}

Bands == {"Unrated", "Negative", "Low", "Good", "Excellent"}

\* The colour of each band in each channel.
Palette ==
    [Unrated   |-> [fill |-> "#9CA3AF", background |-> "#F3F4F6",
                    text |-> "#4B5563", border |-> "#D1D5DB"],
     Negative  |-> [fill |-> "#EF4444", background |-> "#FEE2E2",
                    text |-> "#991B1B", border |-> "#FCA5A5"],
     Low       |-> [fill |-> "#F59E0B", background |-> "#FEF3C7",
                    text |-> "#92400E", border |-> "#FCD34D"],
     Good      |-> [fill |-> "#84CC16", background |-> "#ECFCCB",
                    text |-> "#3F6212", border |-> "#BEF264"],
     Excellent |-> [fill |-> "#10B981", background |-> "#D1FAE5",
                    text |-> "#065F46", border |-> "#6EE7B7"]]

\* The bands whose colour in channel c is col: one band, as the colours of a
\* channel are pairwise distinct.
BandsOf(c, col) == {b \in Bands : Palette[b][c] = col}

ScoreBand(s) ==
    IF s < 0 THEN "Negative"
    ELSE IF s < 1000 THEN "Low"
    ELSE IF s < 2000 THEN "Good"
    ELSE "Excellent"

Called(c) == colors[c] # ""

\* C6: with ratingCount absent or non-zero each colour function selects the
\* band by score alone: < 0 Negative, [0, 10) Low, [10, 20) Good,
\* >= 20 Excellent.
C6_BandByScore ==
    (ratingCount = Absent \/ ratingCount[1] # 0) =>
        \A c \in Channels :
            Called(c) => colors[c] = Palette[ScoreBand(score)][c]

\* All four functions have coloured the score 10 of a rated restaurant.
C6_Witness ==
    /\ score = 1000
    /\ ratingCount = Some(1)
    /\ \A c \in Channels : colors[c] = Palette["Good"][c]

\* C7: with ratingCount = 0 every colour function returns its Unrated
\* colour, whatever the score.
C7_UnratedFirst ==
    ratingCount = Some(0) =>
        \A c \in Channels : Called(c) => colors[c] = Palette["Unrated"][c]

\* All four functions have coloured a negative score of an unrated
\* restaurant.
C7_Witness ==
    /\ score = -2000
    /\ ratingCount = Some(0)
    /\ \A c \in Channels : colors[c] = Palette["Unrated"][c]

\* C8: for every (score, ratingCount) the colours returned by the four
\* functions belong to one and the same band.
C8_ChannelsAgree ==
    \A c, d \in Channels :
        (Called(c) /\ Called(d)) =>
            /\ BandsOf(c, colors[c]) = BandsOf(d, colors[d])
            /\ Cardinality(BandsOf(c, colors[c])) = 1

\* All four functions have coloured the score 10.25, ratingCount absent.
C8_Witness ==
    /\ score = 1025
    /\ ratingCount = Absent
    /\ \A c \in Channels : Called(c)

----------------------------------------------------------------------------
(* Properties of the badge selector *)

\* The six categories in ascending priority, and the badge of each.
PriorityOrder ==
    <<"avg_apres_ski", "avg_food", "avg_service", "avg_sun_terrace",
      "avg_ski_haserl", "avg_interior">>

BadgeOf ==
    [avg_apres_ski |-> "bottle", avg_food |-> "plate", avg_service |-> "cook",
     avg_sun_terrace |-> "sun", avg_ski_haserl |-> "dancer",
     avg_interior |-> "couch"]

\* The categories of st whose average is strictly above 4.5, in priority
\* order.
QualifyingCategories(st) ==
    SelectSeq(PriorityOrder, LAMBDA c : st[c] # Absent /\ st[c][1] > 450)

HasBonus(es) == \E i \in 1 .. Len(es) : es[i] = "eggnog"

\* The returned list without the bonus badge at its end.
RegularBadges(es) ==
    IF es # <<>> /\ es[Len(es)] = "eggnog" THEN SubSeq(es, 1, Len(es) - 1) ELSE es

\* C3: the regular badges are the emojis of the first min(3, k) of the k
\* categories whose average is strictly greater than 4.5, in ascending
\* priority; an average of exactly 4.5 does not qualify.
C3_RegularBadges ==
    emojis # Absent =>
        LET q == QualifyingCategories(stats)
            n == IF Len(q) < 3 THEN Len(q) ELSE 3
        IN  RegularBadges(emojis[1]) = [i \in 1 .. n |-> BadgeOf[q[i]]]

\* Apres-ski is exactly 4.5 and four lower-priority categories qualify:
\* the first three of the four were selected.
C3_Witness ==
    /\ emojis # Absent
    /\ stats.avg_apres_ski = Some(450)
    /\ Len(QualifyingCategories(stats)) = 4
    /\ stats.avg_interior = Some(451)
    /\ RegularBadges(emojis[1]) = <<"plate", "cook", "sun">>

\* C4: the bonus badge is in the list if and only if eggnog_percentage
\* >= 0.5; it is then the last element and occurs once, and it is added
\* whatever the number of regular badges: with three or more qualifying
\* categories and the bonus the list has 4 elements.
C4_BonusBadge ==
    emojis # Absent =>
        LET es == emojis[1]
            bonus == stats.eggnog_percentage # Absent
                     /\ stats.eggnog_percentage[1] >= 50
        IN  /\ HasBonus(es) <=> bonus
            /\ HasBonus(es) =>
                  /\ es[Len(es)] = "eggnog"
                  /\ ~HasBonus(SubSeq(es, 1, Len(es) - 1))
            /\ (bonus /\ Len(QualifyingCategories(stats)) >= 3) => Len(es) = 4
            /\ Len(es) = Len(RegularBadges(es)) + (IF bonus THEN 1 ELSE 0)

\* All six categories qualify and eggnog_percentage is exactly 0.5: three
\* regular badges and the bonus badge behind them.
C4_Witness ==
    /\ emojis = Some(<<"bottle", "plate", "cook", "eggnog">>)
    /\ stats.eggnog_percentage = Some(50)
    /\ Len(QualifyingCategories(stats)) = 6

\* The master table as the module sees it: the entries EMOJI_CONFIGS holds.
MasterTable == [i \in 1 .. Len(arrays[1]) |-> heap[arrays[1][i]]]

\* C5: nothing a caller does through a value returned by getAllEmojiConfigs
\* changes the master table, and the results of getEmojisForRestaurant and
\* getEmojiForCategory are those of the table as it was written.
C5_DefensiveCopy ==
    /\ MasterTable = EMOJI_CONFIGS
    /\ emojis # Absent =>
          emojis[1] = getEmojisForRestaurant(InitialArrays[1], InitialHeap, stats)
    /\ categoryEmoji # Absent =>
          categoryEmoji[1] = getEmojiForCategory(InitialArrays[1], InitialHeap, category)

----------------------------------------------------------------------------
(* Further properties of the Score Calculator *)

\* C11: getSelfServiceLabel maps -20 to 'Nur Selbstbedienung', -10 to
\* 'Teilweise Selbstbedienung' and 0 to 'Bedienung vorhanden'.
C11_Labels ==
    label # "" =>
        label = (CASE value = -2000 -> "Nur Selbstbedienung"
                   [] value = -1000 -> "Teilweise Selbstbedienung"
                   [] value = 0     -> "Bedienung vorhanden")

\* C12: with all other fields fixed, the score with eggnog = true exceeds
\* the score with eggnog false or absent by exactly 5.
C12_EggnogAddsFive ==
    (totalScore # Absent /\ withEggnogScore # Absent) =>
        withEggnogScore[1] - totalScore[1] = 500

\* Both scores of a rating with eggnog = false have been computed.
C12_Witness ==
    /\ rating.eggnog = Some(FALSE)
    /\ rating.self_service = Some(0)
    /\ rating.service = Some(50)
    /\ totalScore # Absent
    /\ withEggnogScore # Absent
    /\ withEggnogScore[1] = totalScore[1] + 500

OutOfDomain(r) ==
    \/ r.self_service # Absent /\ r.self_service[1] \notin {-2000, -1000, 0}
    \/ \E i \in 1 .. Len(SliderFields) :
          r[SliderFields[i]] # Absent /\ r[SliderFields[i]][1] \notin ValidSliderValues

\* C17: for a self_service off the three levels or a slider outside [0, 5]
\* or off the 0.5 step, calculateTotalScore returns the plain sum of the
\* values given, not corrected or clamped, and returns it without error.
C17_NoClamping ==
    OutOfDomain(rating) =>
        /\ ENABLED CallCalculateTotalScore
        /\ totalScore # Absent =>
              totalScore[1] = SumPresent(rating, NumericFields) + Bonus(rating)

\* Six sliders of 7.25 and the bonus have been summed to 48.5, above 35.
C17_Witness ==
    /\ AllSliders(rating, {Some(725)})
    /\ rating.self_service = Some(0)
    /\ rating.eggnog = Some(TRUE)
    /\ totalScore = Some(4850)

\* C14: whatever getEmojisForRestaurant, getEmojiForCategory and
\* getAllEmojiConfigs calls have been made, EMOJI_CONFIGS holds its six
\* entries in the order written, with priorities 1 to 6 and threshold 4.5;
\* the sort inside getEmojisForRestaurant works on the filtered copy.
C14_MasterTableFixed ==
    /\ Len(MasterTable) = 6
    /\ \A i \in 1 .. Len(MasterTable) :
          /\ MasterTable[i].category = PriorityOrder[i]
          /\ MasterTable[i].priority = i
          /\ MasterTable[i].threshold = 450

\* All three operations have been called, the selection on stats with
\* several qualifying categories, so that its sort had entries to order.
C14_Witness ==
    /\ emojis # Absent
    /\ Len(emojis[1]) >= 3
    /\ categoryEmoji # Absent
    /\ Len(handles) >= 1
    /\ Len(MasterTable) = 6

\* The emoji of each category under the name getEmojiForCategory takes:
\* the name without the avg_ prefix.
UnprefixedBadge ==
    [apres_ski |-> "bottle", food |-> "plate", service |-> "cook",
     sun_terrace |-> "sun", ski_haserl |-> "dancer", interior |-> "couch"]

\* C15 as stated, with the categories named as the table names them
\* (avg_food, ...): the emoji of the entry of that name, "" for a name the
\* table does not hold.
C15_LookupByTableName ==
    categoryEmoji # Absent =>
        categoryEmoji[1] =
            (IF category \in DOMAIN BadgeOf THEN BadgeOf[category] ELSE "")

\* C15, amended: getEmojiForCategory takes the category name without the
\* avg_ prefix; it returns the emoji of the entry avg_<name> for the six
\* names apres_ski ... interior and "" for every other name, the prefixed
\* names of the table included.
C15_LookupByUnprefixedName ==
    categoryEmoji # Absent =>
        categoryEmoji[1] =
            (IF category \in DOMAIN UnprefixedBadge
             THEN UnprefixedBadge[category] ELSE "")

\* The lookup of the table's own name avg_food has returned "".
C15_Witness ==
    /\ category = "avg_food"
    /\ categoryEmoji = Some("")

(***************************************************************************)
(* A session of the three logic modules: any exported operation, on any of *)
(* a few inputs, in any order.  history records every call with its        *)
(* argument and its result; the table variables carry whatever the calls   *)
(* leave behind.                                                           *)
(***************************************************************************)

\* Most calls of one session.
MaxHistory == 3

\* Valid ratings of 30 points, with eggnog absent, false and true.
SessionRatings ==
    {r \in RatingInputs :
        r.self_service = Some(0) /\ AllSliders(r, {Some(500)})}

\* (score, ratingCount) pairs: a negative score of a rated restaurant and
\* a high score of an unrated one.
SessionScores == {<<-100, Some(3)>>, <<1500, Some(0)>>}

SessionCategories == {"food", "eggnog"}

InitSession ==
    /\ ScoringIdle
    /\ ValidatorsIdle
    /\ ColorIdle
    /\ TableIdle
    /\ EmojiIdle
    /\ RestIdle

\* The call is appended to the record of the session; nothing but the
\* table variables is left for the operations to change.
Recorded(op, arg, ret) ==
    /\ Len(history) < MaxHistory
    /\ history' = Append(history, [op |-> op, arg |-> arg, ret |-> ret])
    /\ UNCHANGED <<scoringVars, validatorVars, colorVars, emojiVars>>
    /\ UNCHANGED <<withEggnogScore, avgTotalScore, ratingsTable, favoritesTable, calls>>
    /\ UNCHANGED appVars

SessionCalculateTotalScore ==
    \E r \in SessionRatings :
        /\ Recorded("calculateTotalScore", r, calculateTotalScore(r))
        /\ UNCHANGED tableVars

SessionIsValidSliderValue ==
    /\ Recorded("isValidSliderValue", 450, isValidSliderValue(450))
    /\ UNCHANGED tableVars

SessionIsValidSelfService ==
    /\ Recorded("isValidSelfService", -1000, isValidSelfService(-1000))
    /\ UNCHANGED tableVars

SessionGetSelfServiceLabel ==
    /\ Recorded("getSelfServiceLabel", -1000, getSelfServiceLabel(-1000))
    /\ UNCHANGED tableVars

SessionGetScoreColor ==
    \E a \in SessionScores :
        /\ Recorded("getScoreColor", a, getScoreColor(a[1], a[2]))
        /\ UNCHANGED tableVars

SessionGetScoreBackgroundColor ==
    \E a \in SessionScores :
        /\ Recorded("getScoreBackgroundColor", a,
                    getScoreBackgroundColor(a[1], a[2]))
        /\ UNCHANGED tableVars

SessionGetScoreTextColor ==
    \E a \in SessionScores :
        /\ Recorded("getScoreTextColor", a, getScoreTextColor(a[1], a[2]))
        /\ UNCHANGED tableVars

SessionGetScoreBorderColor ==
    \E a \in SessionScores :
        /\ Recorded("getScoreBorderColor", a, getScoreBorderColor(a[1], a[2]))
        /\ UNCHANGED tableVars

SessionGetEmojisForRestaurant ==
    \E st \in TableStats :
        /\ Recorded("getEmojisForRestaurant", st,
                    getEmojisForRestaurant(arrays[1], heap, st))
        /\ arrays' = ArraysAfterSelection(arrays, heap, st)
        /\ UNCHANGED <<heap, handles, mutations>>

SessionGetEmojiForCategory ==
    \E c \in SessionCategories :
        /\ Recorded("getEmojiForCategory", c,
                    getEmojiForCategory(arrays[1], heap, c))
        /\ UNCHANGED tableVars

SessionGetAllEmojiConfigs ==
    LET r == getAllEmojiConfigs(arrays)
    IN  /\ Recorded("getAllEmojiConfigs", <<>>,
                    [i \in 1 .. Len(r.arrays[r.ref]) |-> heap[r.arrays[r.ref][i]]])
        /\ arrays' = r.arrays
        /\ handles' = Append(handles, r.ref)
        /\ UNCHANGED <<heap, mutations>>

NextSession ==
    \/ SessionCalculateTotalScore
    \/ SessionIsValidSliderValue
    \/ SessionIsValidSelfService
    \/ SessionGetSelfServiceLabel
    \/ SessionGetScoreColor
    \/ SessionGetScoreBackgroundColor
    \/ SessionGetScoreTextColor
    \/ SessionGetScoreBorderColor
    \/ SessionGetEmojisForRestaurant
    \/ SessionGetEmojiForCategory
    \/ SessionGetAllEmojiConfigs

SpecSession == InitSession /\ [][NextSession]_vars

\* The operations the determinism statement is about.
DeterministicOps ==
    {"calculateTotalScore", "getScoreColor", "getScoreBackgroundColor",
     "getScoreTextColor", "getScoreBorderColor", "getEmojisForRestaurant"}

\* C13: two calls of the same operation with the same input return equal
\* results, whatever exported operations of the three modules were called
\* between them.
C13_Deterministic ==
    \A i, j \in 1 .. Len(history) :
        (/\ i < j
         /\ history[i].op \in DeterministicOps
         /\ history[i].op = history[j].op
         /\ history[i].arg = history[j].arg)
            => history[i].ret = history[j].ret

\* getEmojisForRestaurant was called twice on the same stats with
\* getEmojisForRestaurant on other stats between, and returned the same
\* non-empty list.
C13_Witness ==
    /\ Len(history) = 3
    /\ history[1].op = "getEmojisForRestaurant"
    /\ history[2].op = "getEmojisForRestaurant"
    /\ history[3].op = "getEmojisForRestaurant"
    /\ history[1].arg # history[2].arg
    /\ history[1].arg = history[3].arg
    /\ history[1].ret = history[3].ret
    /\ Len(history[1].ret) >= 3

\* The emojis of the six regular badges.
RegularBadgeSet == {BadgeOf[PriorityOrder[i]] : i \in 1 .. Len(PriorityOrder)}

\* C18: for any stats, with averages below 0, above 5 or absent and with a
\* rating_count of 0, getEmojisForRestaurant returns a list of at most
\* three regular badges followed by at most one bonus badge, in which no
\* badge occurs twice and no badge of a category whose average is absent
\* occurs.
C18_TotalSelection ==
    emojis # Absent =>
        LET es == emojis[1]
            reg == RegularBadges(es)
        IN  /\ Len(reg) <= 3
            /\ Len(es) <= Len(reg) + 1
            /\ \A i \in 1 .. Len(reg) : reg[i] \in RegularBadgeSet
            /\ \A i, j \in 1 .. Len(es) : i # j => es[i] # es[j]
            /\ \A i \in 1 .. Len(PriorityOrder) :
                  stats[PriorityOrder[i]] = Absent =>
                      \A k \in 1 .. Len(es) : es[k] # BadgeOf[PriorityOrder[i]]

\* No rating, the first average absent, the second negative, the other
\* four at 6.0, every rating with eggnog: three badges and the bonus.
C18_Witness ==
    /\ stats.rating_count = 0
    /\ stats.avg_apres_ski = Absent
    /\ stats.avg_food = Some(-100)
    /\ stats.avg_service = Some(600)
    /\ stats.avg_sun_terrace = Some(600)
    /\ stats.avg_ski_haserl = Some(600)
    /\ stats.avg_interior = Some(600)
    /\ stats.eggnog_percentage = Some(100)
    /\ emojis = Some(<<"cook", "sun", "dancer", "eggnog">>)

(***************************************************************************)
(* The materialized view restaurant_stats over the ratings table.  A row   *)
(* of ratings is [id, restaurant_id, device_id, values], values holding    *)
(* the eight rated columns with NULL as Absent.                            *)
(***************************************************************************)

\* COALESCE(a, b).
SqlCoalesce(a, b) == IF a # Absent THEN a ELSE b

\* a + b: NULL if either operand is NULL.
SqlAdd(a, b) == IF a = Absent \/ b = Absent THEN Absent ELSE Some(a[1] + b[1])

\* CASE WHEN eggnog THEN 5 ELSE 0 END: a NULL condition takes the ELSE.
SqlEggnogBonus(e) == IF e = Some(TRUE) THEN Some(500) ELSE Some(0)

\* Mutant: the sliders added as they are stored, without COALESCE.
RowTotal_noCoalesce(v) ==
    SqlAdd(SqlAdd(SqlAdd(SqlAdd(SqlAdd(SqlAdd(SqlAdd(
        v.self_service, v.service), v.ski_haserl), v.food), v.sun_terrace),
        v.interior), v.apres_ski), SqlEggnogBonus(v.eggnog))

\* The expression the view averages, for one row.
RowTotal(v) ==
    SqlAdd(SqlAdd(SqlAdd(SqlAdd(SqlAdd(SqlAdd(SqlAdd(
        v.self_service,
        SqlCoalesce(v.service, Some(0))),
        SqlCoalesce(v.ski_haserl, Some(0))),
        SqlCoalesce(v.food, Some(0))),
        SqlCoalesce(v.sun_terrace, Some(0))),
        SqlCoalesce(v.interior, Some(0))),
        SqlCoalesce(v.apres_ski, Some(0))),
        SqlEggnogBonus(v.eggnog))

RECURSIVE SqlSum(_)
SqlSum(rows) ==
    IF rows = {} THEN 0
    ELSE LET r == CHOOSE x \in rows : TRUE
         IN  RowTotal(r.values)[1] + SqlSum(rows \ {r})

RECURSIVE Gcd(_, _)
Gcd(a, b) == IF b = 0 THEN a ELSE Gcd(b, a % b)

\* The quotient n / d (d > 0) of two counts, kept exact as a fraction of
\* hundredths in lowest terms: 50 / 3 is 16.66... hundredths.
Quotient(n, d) ==
    LET g == Gcd(IF n < 0 THEN 0 - n ELSE n, d)
    IN  [num |-> n \div g, den |-> d \div g]

\* A whole count of hundredths as a quotient.
Whole(n) == [num |-> n, den |-> 1]

\* AVG over the rows of one restaurant: NULL inputs are left out, no input
\* gives NULL, and the result is the sum divided by the number of inputs,
\* not rounded to a hundredth.
SqlAvgTotal(rows) ==
    LET counted == {r \in rows : RowTotal(r.values) # Absent}
    IN  IF counted = {} THEN Absent
        ELSE Some(Quotient(SqlSum(counted), Cardinality(counted)))

\* avg_total_score of the restaurant, from the rows the LEFT JOIN gives it.
AvgTotalScore(table, restaurant) ==
    SqlCoalesce(SqlAvgTotal({r \in table : r.restaurant_id = restaurant}),
                Some(Whole(0)))

\* What the ratings table can hold in a slider column and the client can
\* have written: NULL, 0, 0.5, 5.
StoredSliders == {Absent, Some(0), Some(50), Some(500)}

\* self_service is NOT NULL and one of the three levels.
StoredRatings ==
    [self_service : {Some(-2000), Some(-1000), Some(0)},
     service : StoredSliders, ski_haserl : StoredSliders, food : StoredSliders,
     sun_terrace : StoredSliders, interior : StoredSliders,
     apres_ski : StoredSliders,
     eggnog : EggnogInputs]

\* Restaurant 1 has one rating; rating is that row as the client reads it.
InitView ==
    /\ rating \in StoredRatings
    /\ totalScore = Absent
    /\ ratingsTable =
          {[id |-> 1, restaurant_id |-> 1, device_id |-> 1, values |-> rating]}
    /\ withEggnogScore = Absent
    /\ avgTotalScore = Absent
    /\ history = <<>>
    /\ favoritesTable = {}
    /\ calls = NoCalls
    /\ AppIdle
    /\ ValidatorsIdle
    /\ ColorIdle
    /\ TableIdle
    /\ EmojiIdle

\* REFRESH MATERIALIZED VIEW restaurant_stats, read for restaurant 1.
RefreshRestaurantStats ==
    /\ avgTotalScore' = AvgTotalScore(ratingsTable, 1)
    /\ UNCHANGED <<scoringVars, validatorVars, colorVars, tableVars, emojiVars>>
    /\ UNCHANGED <<withEggnogScore, history, ratingsTable, favoritesTable, calls>>
    /\ UNCHANGED appVars

NextView ==
    \/ CallCalculateTotalScore
    \/ RefreshRestaurantStats

SpecView == InitView /\ [][NextView]_vars

\* C16: for a restaurant whose only rating is a stored row (self_service
\* one of the three levels, each slider a value or NULL, eggnog true, false
\* or NULL), the avg_total_score of restaurant_stats equals
\* calculateTotalScore of that rating.
C16_ViewMatchesClient ==
    (totalScore # Absent /\ avgTotalScore # Absent) =>
        avgTotalScore[1] = Whole(totalScore[1])

\* Self-service only, two sliders NULL, one at 0.5, three at 5, eggnog
\* NULL: both sides give -4.5.
C16_Witness ==
    /\ rating.self_service = Some(-2000)
    /\ rating.service = Absent
    /\ rating.food = Absent
    /\ rating.ski_haserl = Some(50)
    /\ rating.sun_terrace = Some(500)
    /\ rating.interior = Some(500)
    /\ rating.apres_ski = Some(500)
    /\ rating.eggnog = Absent
    /\ totalScore = Some(-450)
    /\ avgTotalScore = Some(Whole(-450))

(***************************************************************************)
(* The ratings API over the ratings table.  Every API function sends one   *)
(* statement and awaits its result: a call is pending from the moment it   *)
(* is made until the database has executed its statement, and any number   *)
(* of calls can be pending together.  The database executes one statement  *)
(* at a time and always answers.                                           *)
(***************************************************************************)

\* Most API calls of one run.
MaxApiCalls == 3

RestaurantIds == {1}

DeviceIds == {1, 2}

\* Two ratings a device can send: 30 points without eggnog and a
\* self-service rating of nothing but the bonus.
RatingA ==
    [self_service |-> Some(0), service |-> Some(500), ski_haserl |-> Some(500),
     food |-> Some(500), sun_terrace |-> Some(500), interior |-> Some(500),
     apres_ski |-> Some(500), eggnog |-> Some(FALSE)]

RatingB ==
    [self_service |-> Some(-2000), service |-> Some(0), ski_haserl |-> Some(0),
     food |-> Some(0), sun_terrace |-> Some(0), interior |-> Some(0),
     apres_ski |-> Some(0), eggnog |-> Some(TRUE)]

RatingValues == {RatingA, RatingB}

\* The message createRating throws on a unique violation, in ASCII
\* (Huette for Hütte, aendern for ändern).
DuplicateMessage ==
    "Du hast diese Huette bereits bewertet. Verwende \"Bewertung aendern\"."

SamePair(r, restaurant, device) ==
    r.restaurant_id = restaurant /\ r.device_id = device

\* Mutant: a ratings table without UNIQUE (restaurant_id, device_id).
InsertRating_noUnique(table, row) ==
    [table |-> table \cup {row}, error |-> "", data |-> Some(row)]

\* INSERT INTO ratings ... RETURNING *: the row is refused with SQLSTATE
\* 23505 if its (restaurant_id, device_id) is already in the table.
InsertRating(table, row) ==
    IF \E r \in table : SamePair(r, row.restaurant_id, row.device_id)
    THEN [table |-> table, error |-> "23505", data |-> Absent]
    ELSE [table |-> table \cup {row}, error |-> "", data |-> Some(row)]

\* UPDATE ratings SET ... WHERE restaurant_id = .. AND device_id = ..
\* RETURNING *, read with .single(): an error unless exactly one row comes
\* back, and the statement is then rolled back.
UpdateRating(table, restaurant, device, updates) ==
    LET matched == {r \in table : SamePair(r, restaurant, device)}
        updated == {[r EXCEPT !.values = updates] : r \in matched}
    IN  IF Cardinality(matched) = 1
        THEN [table |-> (table \ matched) \cup updated, error |-> "",
              data |-> Some(CHOOSE r \in updated : TRUE)]
        ELSE [table |-> table, error |-> "PGRST116", data |-> Absent]

\* DELETE FROM ratings WHERE restaurant_id = .. AND device_id = ..
DeleteRating(table, restaurant, device) ==
    [table |-> {r \in table : ~SamePair(r, restaurant, device)},
     error |-> "", data |-> Absent]

\* What createRating makes of the answer: the thrown message, "" if it
\* returns.
createRatingError(answer) ==
    IF answer.error # ""
    THEN (IF answer.error = "23505" THEN DuplicateMessage
          ELSE "Failed to create rating")
    ELSE ""

updateRatingError(answer) ==
    IF answer.error # "" THEN "Failed to update rating" ELSE ""

deleteRatingError(answer) ==
    IF answer.error # "" THEN "Failed to delete rating" ELSE ""

\* restaurants/{restaurantId}/{ratingId}_{timestamp}.jpg
StoragePath(restaurant, ratingId, timestamp) == <<restaurant, ratingId, timestamp>>

\* photos.rating_id and comment_votes.rating_id REFERENCES ratings(id) ON
\* DELETE CASCADE: the rows of a child table whose rating a statement
\* deleted are deleted with it.
CascadeDelete(children, before, after) ==
    LET deleted == {r.id : r \in before} \ {r.id : r \in after}
    IN  {c \in children : c.rating_id \notin deleted}

\* A rating that is in the database before the calls: device 2 rated
\* restaurant 1, device 1 voted for its comment, and it has one photo.
SeededRating ==
    [id |-> 0, restaurant_id |-> 1, device_id |-> 2, values |-> RatingA]

SeededVote == [rating_id |-> 0, device_id |-> 1, created_at |-> 0]

SeededPhoto == [id |-> 0, rating_id |-> 0, storage_path |-> StoragePath(1, 0, 1)]

\* The calls start on an empty database or on the seeded one; the
\* materialized view holds what its query gives on the ratings there are.
InitRatings ==
    /\ ScoringIdle
    /\ ValidatorsIdle
    /\ ColorIdle
    /\ TableIdle
    /\ EmojiIdle
    /\ \E seeded \in BOOLEAN :
          /\ ratingsTable = IF seeded THEN {SeededRating} ELSE {}
          /\ votesTable = IF seeded THEN {SeededVote} ELSE {}
          /\ photosTable = IF seeded THEN {SeededPhoto} ELSE {}
          /\ storageFiles = IF seeded THEN {SeededPhoto.storage_path} ELSE {}
    /\ avgTotalScore = AvgTotalScore(ratingsTable, 1)
    /\ listInput = IdleList
    /\ listed = Absent
    /\ grayedOut = FALSE
    /\ display = NoDisplay
    /\ withEggnogScore = Absent
    /\ history = <<>>
    /\ favoritesTable = {}
    /\ calls = NoCalls

RatingsFrame ==
    /\ UNCHANGED <<scoringVars, validatorVars, colorVars, tableVars, emojiVars>>
    /\ UNCHANGED <<withEggnogScore, history, favoritesTable>>
    /\ UNCHANGED <<storageFiles, listInput, listed, grayedOut, display>>

\* A call is made: its statement is on its way to the database.
StartRatingCall(op, restaurant, device, values) ==
    /\ Len(calls) < MaxApiCalls
    /\ calls' = Append(calls, [op |-> op, restaurant_id |-> restaurant,
                               device_id |-> device, values |-> values,
                               pc |-> "pending", error |-> "", data |-> Absent])
    /\ UNCHANGED <<avgTotalScore, votesTable, photosTable>>
    /\ RatingsFrame

StartCreateRating ==
    \E restaurant \in RestaurantIds, device \in DeviceIds, v \in RatingValues :
        /\ StartRatingCall("createRating", restaurant, device, v)
        /\ UNCHANGED ratingsTable

StartUpdateRating ==
    \E restaurant \in RestaurantIds, device \in DeviceIds, v \in RatingValues :
        /\ StartRatingCall("updateRating", restaurant, device, v)
        /\ UNCHANGED ratingsTable

StartDeleteRating ==
    \E restaurant \in RestaurantIds, device \in DeviceIds :
        /\ StartRatingCall("deleteRating", restaurant, device, IdleRating)
        /\ UNCHANGED ratingsTable

\* The statement of call i has been executed and the call ends with the
\* answer: it returns data or throws error.  A statement that did not fail
\* takes the photos and votes of the ratings it deleted with it, and its
\* AFTER INSERT / UPDATE / DELETE trigger refreshes restaurant_stats.
FinishRatingCall(i, answer, error) ==
    /\ ratingsTable' = answer.table
    /\ votesTable' = CascadeDelete(votesTable, ratingsTable, answer.table)
    /\ photosTable' = CascadeDelete(photosTable, ratingsTable, answer.table)
    /\ avgTotalScore' = IF answer.error = ""
                        THEN AvgTotalScore(answer.table, 1)
                        ELSE avgTotalScore
    /\ calls' = [calls EXCEPT ![i].pc = "done", ![i].error = error,
                              ![i].data = IF error = "" THEN answer.data ELSE Absent]
    /\ RatingsFrame

\* The new row takes the number of the call as its id.
FinishCreateRating ==
    \E i \in 1 .. Len(calls) :
        /\ calls[i].op = "createRating"
        /\ calls[i].pc = "pending"
        /\ LET answer ==
                  InsertRating(ratingsTable,
                               [id |-> i, restaurant_id |-> calls[i].restaurant_id,
                                device_id |-> calls[i].device_id,
                                values |-> calls[i].values])
           IN  FinishRatingCall(i, answer, createRatingError(answer))

FinishUpdateRating ==
    \E i \in 1 .. Len(calls) :
        /\ calls[i].op = "updateRating"
        /\ calls[i].pc = "pending"
        /\ LET answer == UpdateRating(ratingsTable, calls[i].restaurant_id,
                                      calls[i].device_id, calls[i].values)
           IN  FinishRatingCall(i, answer, updateRatingError(answer))

FinishDeleteRating ==
    \E i \in 1 .. Len(calls) :
        /\ calls[i].op = "deleteRating"
        /\ calls[i].pc = "pending"
        /\ LET answer == DeleteRating(ratingsTable, calls[i].restaurant_id,
                                      calls[i].device_id)
           IN  FinishRatingCall(i, answer, deleteRatingError(answer))

NextRatings ==
    \/ StartCreateRating
    \/ StartUpdateRating
    \/ StartDeleteRating
    \/ FinishCreateRating
    \/ FinishUpdateRating
    \/ FinishDeleteRating

SpecRatings == InitRatings /\ [][NextRatings]_vars

OneRatingPerPair ==
    \A r1, r2 \in ratingsTable :
        SamePair(r1, r2.restaurant_id, r2.device_id) => r1 = r2

\* A createRating ends in this step although its pair had a rating: it
\* throws the duplicate message and the table is what it was.
CreateOnExistingFails ==
    \A i \in 1 .. Len(calls) :
        (/\ calls[i].op = "createRating"
         /\ calls[i].pc = "pending"
         /\ calls'[i].pc = "done"
         /\ \E r \in ratingsTable :
               SamePair(r, calls[i].restaurant_id, calls[i].device_id))
            => /\ calls'[i].error = DuplicateMessage
               /\ calls'[i].data = Absent
               /\ ratingsTable' = ratingsTable

\* C19: after any createRating, updateRating and deleteRating calls, in
\* any interleaving and with createRating calls of one device for one
\* restaurant pending together, the ratings table holds at most one rating
\* per (restaurant_id, device_id); a createRating for a pair that has a
\* rating fails with the duplicate message and leaves that rating as it is.
C19_OneRatingPerPair ==
    /\ []OneRatingPerPair
    /\ [][CreateOnExistingFails]_vars

\* Device 1 made two createRating calls for restaurant 1 with different
\* values before either was answered (the first answered is the later
\* call); one returned its row, the other threw the duplicate message, and
\* the table holds the row of the one that returned.
C19_Witness ==
    /\ Len(calls) >= 2
    /\ calls[1].op = "createRating" /\ calls[2].op = "createRating"
    /\ calls[1].device_id = 1 /\ calls[2].device_id = 1
    /\ calls[1].values = RatingA /\ calls[2].values = RatingB
    /\ calls[1].pc = "done" /\ calls[2].pc = "done"
    /\ calls[1].error = DuplicateMessage
    /\ calls[2].error = ""
    /\ ratingsTable =
          {[id |-> 2, restaurant_id |-> 1, device_id |-> 1, values |-> RatingB]}

(***************************************************************************)
(* The favorites API over the favorites table.  toggleFavorite awaits two  *)
(* statements in turn, the SELECT of isFavorite and then the DELETE of     *)
(* removeFavorite or the INSERT of addFavorite; other calls' statements    *)
(* can be executed between the two.                                        *)
(***************************************************************************)

SkiAreaIds == {1}

SameFavorite(f, skiArea, device) ==
    f.ski_area_id = skiArea /\ f.device_id = device

\* SELECT * FROM favorites WHERE ski_area_id = .. AND device_id = .., read
\* with .maybeSingle(); isFavorite returns data !== null.
isFavorite(table, skiArea, device) ==
    \E f \in table : SameFavorite(f, skiArea, device)

\* INSERT INTO favorites: refused with SQLSTATE 23505 if the primary key
\* (device_id, ski_area_id) is already in the table.
InsertFavorite(table, row) ==
    IF \E f \in table : SameFavorite(f, row.ski_area_id, row.device_id)
    THEN [table |-> table, error |-> "23505"]
    ELSE [table |-> table \cup {row}, error |-> ""]

\* DELETE FROM favorites WHERE ski_area_id = .. AND device_id = ..
DeleteFavorite(table, skiArea, device) ==
    [table |-> {f \in table : ~SameFavorite(f, skiArea, device)}, error |-> ""]

\* What addFavorite makes of the answer: 23505 is ignored, any other error
\* is thrown.
addFavoriteError(answer) ==
    IF answer.error # "" /\ answer.error # "23505"
    THEN "Failed to add favorite" ELSE ""

removeFavoriteError(answer) ==
    IF answer.error # "" THEN "Failed to remove favorite" ELSE ""

InitFavorites ==
    /\ ScoringIdle
    /\ ValidatorsIdle
    /\ ColorIdle
    /\ TableIdle
    /\ EmojiIdle
    /\ RestIdle

FavoritesFrame ==
    /\ UNCHANGED <<scoringVars, validatorVars, colorVars, tableVars, emojiVars>>
    /\ UNCHANGED <<withEggnogScore, avgTotalScore, history, ratingsTable>>
    /\ UNCHANGED appVars

\* toggleFavorite is called: the SELECT of isFavorite is on its way.
StartToggleFavorite ==
    \E skiArea \in SkiAreaIds, device \in DeviceIds :
        /\ Len(calls) < MaxApiCalls
        /\ calls' = Append(calls, [op |-> "toggleFavorite",
                                   ski_area_id |-> skiArea, device_id |-> device,
                                   pc |-> "isFavorite", isFav |-> Absent,
                                   error |-> "", ret |-> Absent])
        /\ UNCHANGED favoritesTable
        /\ FavoritesFrame

\* The SELECT has been answered; the call goes on to removeFavorite or to
\* addFavorite.
ToggleIsFavorite ==
    \E i \in 1 .. Len(calls) :
        /\ calls[i].pc = "isFavorite"
        /\ LET isFav == isFavorite(favoritesTable, calls[i].ski_area_id,
                                   calls[i].device_id)
           IN  calls' = [calls EXCEPT
                            ![i].isFav = Some(isFav),
                            ![i].pc = IF isFav THEN "removeFavorite"
                                      ELSE "addFavorite"]
        /\ UNCHANGED favoritesTable
        /\ FavoritesFrame

\* The DELETE of removeFavorite has been executed; the call returns false.
ToggleRemoveFavorite ==
    \E i \in 1 .. Len(calls) :
        /\ calls[i].pc = "removeFavorite"
        /\ LET answer == DeleteFavorite(favoritesTable, calls[i].ski_area_id,
                                        calls[i].device_id)
               error == removeFavoriteError(answer)
           IN  /\ favoritesTable' = answer.table
               /\ calls' = [calls EXCEPT
                               ![i].pc = "done", ![i].error = error,
                               ![i].ret = IF error = "" THEN Some(FALSE) ELSE Absent]
        /\ FavoritesFrame

\* The INSERT of addFavorite has been executed; the call returns true.
\* created_at takes the number of the call.
ToggleAddFavorite ==
    \E i \in 1 .. Len(calls) :
        /\ calls[i].pc = "addFavorite"
        /\ LET answer ==
                  InsertFavorite(favoritesTable,
                                 [device_id |-> calls[i].device_id,
                                  ski_area_id |-> calls[i].ski_area_id,
                                  created_at |-> i])
               error == addFavoriteError(answer)
           IN  /\ favoritesTable' = answer.table
               /\ calls' = [calls EXCEPT
                               ![i].pc = "done", ![i].error = error,
                               ![i].ret = IF error = "" THEN Some(TRUE) ELSE Absent]
        /\ FavoritesFrame

NextFavorites ==
    \/ StartToggleFavorite
    \/ ToggleIsFavorite
    \/ ToggleRemoveFavorite
    \/ ToggleAddFavorite

SpecFavorites == InitFavorites /\ [][NextFavorites]_vars

OneFavoritePerPair ==
    \A f1, f2 \in favoritesTable :
        SameFavorite(f1, f2.ski_area_id, f2.device_id) => f1 = f2

\* A toggleFavorite that returns true in this step has added the row of
\* its pair in this step; one that returns false has removed it.
ToggleReportsOwnEffect ==
    \A i \in 1 .. Len(calls) :
        (calls[i].pc # "done" /\ calls'[i].pc = "done") =>
            LET had == isFavorite(favoritesTable, calls[i].ski_area_id,
                                 calls[i].device_id)
                has == isFavorite(favoritesTable', calls[i].ski_area_id,
                                 calls[i].device_id)
            IN  /\ calls'[i].ret = Some(TRUE) => (~had /\ has)
                /\ calls'[i].ret = Some(FALSE) => (had /\ ~has)

\* C20: in every interleaving of toggleFavorite calls, two calls of one
\* device for one ski area pending together included, a call returns true
\* only if it added the favorite row and false only if it removed it, and
\* the favorites table holds at most one row per (device_id, ski_area_id).
C20_ToggleReportsOwnEffect ==
    /\ []OneFavoritePerPair
    /\ [][ToggleReportsOwnEffect]_vars

(***************************************************************************)
(* toggleCommentVote over table comment_votes: the SELECT of hasUserVoted, *)
(* then a DELETE or an INSERT, each awaited; other calls' statements can   *)
(* be executed between the two.                                            *)
(***************************************************************************)

RatingIds == {1}

SameVote(v, ratingId, device) == v.rating_id = ratingId /\ v.device_id = device

\* SELECT * FROM comment_votes WHERE rating_id = .. AND device_id = ..,
\* read with .maybeSingle(); hasUserVoted returns data !== null.
hasUserVoted(table, ratingId, device) ==
    \E v \in table : SameVote(v, ratingId, device)

\* Mutant: comment_votes without its primary key.
InsertVote_noKey(table, row) == [table |-> table \cup {row}, error |-> ""]

\* INSERT INTO comment_votes: refused with SQLSTATE 23505 if the primary
\* key (rating_id, device_id) is already in the table.
InsertVote(table, row) ==
    IF \E v \in table : SameVote(v, row.rating_id, row.device_id)
    THEN [table |-> table, error |-> "23505"]
    ELSE [table |-> table \cup {row}, error |-> ""]

\* DELETE FROM comment_votes WHERE rating_id = .. AND device_id = ..
DeleteVote(table, ratingId, device) ==
    [table |-> {v \in table : ~SameVote(v, ratingId, device)}, error |-> ""]

\* The message toggleCommentVote throws on the answer of its INSERT and of
\* its DELETE, "" if it goes on to return.
addVoteError(answer) == IF answer.error # "" THEN "Failed to add vote" ELSE ""

removeVoteError(answer) ==
    IF answer.error # "" THEN "Failed to remove vote" ELSE ""

InitVotes ==
    /\ ScoringIdle
    /\ ValidatorsIdle
    /\ ColorIdle
    /\ TableIdle
    /\ EmojiIdle
    /\ RestIdle

VotesFrame ==
    /\ UNCHANGED <<scoringVars, validatorVars, colorVars, tableVars, emojiVars>>
    /\ UNCHANGED <<withEggnogScore, avgTotalScore, history, ratingsTable,
                   favoritesTable>>
    /\ UNCHANGED <<photosTable, storageFiles, listInput, listed, grayedOut, display>>

\* toggleCommentVote is called: the SELECT of hasUserVoted is on its way.
StartToggleCommentVote ==
    \E ratingId \in RatingIds, device \in DeviceIds :
        /\ Len(calls) < MaxApiCalls
        /\ calls' = Append(calls, [op |-> "toggleCommentVote",
                                   rating_id |-> ratingId, device_id |-> device,
                                   pc |-> "hasUserVoted", alreadyVoted |-> Absent,
                                   error |-> "", ret |-> Absent])
        /\ UNCHANGED votesTable
        /\ VotesFrame

\* The SELECT has been answered; the call sends its DELETE or its INSERT.
ToggleHasUserVoted ==
    \E i \in 1 .. Len(calls) :
        /\ calls[i].pc = "hasUserVoted"
        /\ LET alreadyVoted == hasUserVoted(votesTable, calls[i].rating_id,
                                            calls[i].device_id)
           IN  calls' = [calls EXCEPT
                            ![i].alreadyVoted = Some(alreadyVoted),
                            ![i].pc = IF alreadyVoted THEN "delete" ELSE "insert"]
        /\ UNCHANGED votesTable
        /\ VotesFrame

\* The DELETE has been executed; the call returns false.
ToggleRemoveVote ==
    \E i \in 1 .. Len(calls) :
        /\ calls[i].pc = "delete"
        /\ LET answer == DeleteVote(votesTable, calls[i].rating_id,
                                    calls[i].device_id)
               error == removeVoteError(answer)
           IN  /\ votesTable' = answer.table
               /\ calls' = [calls EXCEPT
                               ![i].pc = "done", ![i].error = error,
                               ![i].ret = IF error = "" THEN Some(FALSE) ELSE Absent]
        /\ VotesFrame

\* The INSERT has been executed; the call returns true or throws.
\* created_at takes the number of the call.
ToggleAddVote ==
    \E i \in 1 .. Len(calls) :
        /\ calls[i].pc = "insert"
        /\ LET answer ==
                  InsertVote(votesTable,
                             [rating_id |-> calls[i].rating_id,
                              device_id |-> calls[i].device_id,
                              created_at |-> i])
               error == addVoteError(answer)
           IN  /\ votesTable' = answer.table
               /\ calls' = [calls EXCEPT
                               ![i].pc = "done", ![i].error = error,
                               ![i].ret = IF error = "" THEN Some(TRUE) ELSE Absent]
        /\ VotesFrame

NextVotes ==
    \/ StartToggleCommentVote
    \/ ToggleHasUserVoted
    \/ ToggleRemoveVote
    \/ ToggleAddVote

SpecVotes == InitVotes /\ [][NextVotes]_vars

OneVotePerPair ==
    \A v1, v2 \in votesTable :
        SameVote(v1, v2.rating_id, v2.device_id) => v1 = v2

\* A toggleCommentVote ends in this step.  It returns true only with its
\* row added; a step that adds the vote returns true and one that removes
\* it returns false; a call that throws leaves the table as it was; and a
\* call whose check still describes the table removes the vote that exists
\* or adds the one that does not.
VoteToggleEffect ==
    \A i \in 1 .. Len(calls) :
        (calls[i].pc # "done" /\ calls'[i].pc = "done") =>
            LET had == hasUserVoted(votesTable, calls[i].rating_id,
                                   calls[i].device_id)
                has == hasUserVoted(votesTable', calls[i].rating_id,
                                   calls[i].device_id)
                ret == calls'[i].ret
            IN  /\ ret = Some(TRUE) => (~had /\ has)
                /\ (~had /\ has) => ret = Some(TRUE)
                /\ (had /\ ~has) => ret = Some(FALSE)
                /\ ret = Absent => votesTable' = votesTable
                /\ calls[i].alreadyVoted = Some(had) =>
                      IF had THEN ~has /\ ret = Some(FALSE)
                      ELSE has /\ ret = Some(TRUE)

\* C21: toggleCommentVote removes the device's vote when one exists and
\* adds one otherwise, returning true if it added and false if it removed;
\* in every interleaving, two calls for one rating and device pending
\* together included, comment_votes holds at most one row per (rating_id,
\* device_id) and no call returns true without its insert having succeeded.
C21_ToggleCommentVote ==
    /\ []OneVotePerPair
    /\ [][VoteToggleEffect]_vars

\* Two calls of device 1 both found no vote; the insert of one succeeded
\* and it returned true, the insert of the other was refused and it threw.
C21_Witness ==
    /\ Len(calls) >= 2
    /\ calls[1].device_id = 1 /\ calls[2].device_id = 1
    /\ calls[1].alreadyVoted = Some(FALSE) /\ calls[2].alreadyVoted = Some(FALSE)
    /\ calls[1].pc = "done" /\ calls[2].pc = "done"
    /\ calls[1].ret = Some(TRUE)
    /\ calls[2].ret = Absent /\ calls[2].error = "Failed to add vote"
    /\ Cardinality(votesTable) = 1

(***************************************************************************)
(* The photos API over table photos and storage bucket photos.  Every      *)
(* request to the database or to storage is awaited and can fail: its      *)
(* outcome is chosen when it is executed.  A photos row is [id, rating_id, *)
(* storage_path]; a file is known by its path.                             *)
(***************************************************************************)

\* Most photo API calls of one run.
MaxPhotoCalls == 2

\* Values of Date.now() while the calls run.
Timestamps == {1, 2}

\* storage.upload(path, bytes, {upsert: false}): refused if the path holds
\* a file.
StorageUpload(files, path, ok) ==
    IF ~ok THEN [files |-> files, error |-> "unavailable"]
    ELSE IF path \in files THEN [files |-> files, error |-> "Duplicate"]
    ELSE [files |-> files \cup {path}, error |-> ""]

\* storage.remove(paths)
StorageRemove(files, paths, ok) ==
    IF ok THEN [files |-> files \ paths, error |-> ""]
    ELSE [files |-> files, error |-> "unavailable"]

\* INSERT INTO photos ... RETURNING *, read with .single()
InsertPhoto(table, row, ok) ==
    IF ok THEN [table |-> table \cup {row}, error |-> "", data |-> Some(row)]
    ELSE [table |-> table, error |-> "unavailable", data |-> Absent]

\* SELECT storage_path FROM photos WHERE id = .., read with .single(): an
\* error unless exactly one row comes back.
SelectPhoto(table, photoId, ok) ==
    LET found == {r \in table : r.id = photoId}
    IN  IF ok /\ Cardinality(found) = 1
        THEN [error |-> "", data |-> Some((CHOOSE r \in found : TRUE).storage_path)]
        ELSE [error |-> IF ok THEN "PGRST116" ELSE "unavailable", data |-> Absent]

\* DELETE FROM photos WHERE id = ..
DeletePhotoRow(table, photoId, ok) ==
    IF ok THEN [table |-> {r \in table : r.id # photoId}, error |-> ""]
    ELSE [table |-> table, error |-> "unavailable"]

\* Mutant: uploadPhoto goes on to the insert whatever the upload answered.
afterUpload_ignoreError(uploadError) == "insert"

\* Where uploadPhoto goes after the upload: on to the insert, or out with
\* the error thrown.
afterUpload(uploadError) == IF uploadError = "" THEN "insert" ELSE "done"

InitPhotos ==
    /\ ScoringIdle
    /\ ValidatorsIdle
    /\ ColorIdle
    /\ TableIdle
    /\ EmojiIdle
    /\ RestIdle

PhotosFrame ==
    /\ UNCHANGED <<scoringVars, validatorVars, colorVars, tableVars, emojiVars>>
    /\ UNCHANGED <<withEggnogScore, avgTotalScore, history, ratingsTable,
                   favoritesTable>>
    /\ UNCHANGED <<votesTable, listInput, listed, grayedOut, display>>

PhotoCall(op, photoId) ==
    [op |-> op, photo_id |-> photoId, platform |-> "", path |-> Absent,
     pc |-> "called", reading |-> "", cleanup |-> "", error |-> "",
     ret |-> Absent]

\* Platform.OS of the device the call runs on.
Platforms == {"web", "ios"}

\* uploadPhoto is called for rating 1 of restaurant 1 and starts the
\* compression of the image.
StartUploadPhoto ==
    \E platform \in Platforms :
        /\ Len(calls) < MaxPhotoCalls
        /\ calls' = Append(calls, [PhotoCall("uploadPhoto", 0) EXCEPT
                                      !.platform = platform, !.pc = "compress"])
        /\ UNCHANGED <<photosTable, storageFiles>>
        /\ PhotosFrame

\* The first request of the read of the image: readAsStringAsync on the
\* native branch; on web readImageAsArrayWeb, which converts a data: URI
\* itself and fetches any other.
FirstRead(platform, scheme) ==
    IF platform # "web" THEN "readAsStringAsync"
    ELSE IF scheme = "data" THEN "dataUri"
    ELSE "fetch"

\* The request the read awaits after one has been answered, "" after the
\* last: fetch(uri), response.blob(), blob.arrayBuffer().
NextRead(request) ==
    IF request = "fetch" THEN "blob"
    ELSE IF request = "blob" THEN "arrayBuffer"
    ELSE ""

\* What imageUri starts with.
UriSchemes == {"data", "blob"}

\* Steps 1 and 2: the compression has been answered.  A failed one is
\* thrown on by the native branch and passed over on web; otherwise the
\* path is made from Date.now() and the reading of the file starts.
UploadCompress ==
    \E i \in 1 .. Len(calls), ok \in BOOLEAN, t \in Timestamps,
       scheme \in UriSchemes :
        /\ calls[i].op = "uploadPhoto"
        /\ calls[i].pc = "compress"
        /\ calls' = IF ok \/ calls[i].platform = "web"
                    THEN [calls EXCEPT
                            ![i].path = Some(StoragePath(1, 1, t)),
                            ![i].pc = "read",
                            ![i].reading = FirstRead(calls[i].platform, scheme)]
                    ELSE [calls EXCEPT
                            ![i].pc = "done",
                            ![i].error = "compress failed"]
        /\ UNCHANGED <<photosTable, storageFiles>>
        /\ PhotosFrame

\* Step 3: a request of the reading has been answered.  The call awaits
\* the next request of the read, or sends the bytes to storage after the
\* last; the error of a failed request is thrown on.
UploadRead ==
    \E i \in 1 .. Len(calls), ok \in BOOLEAN :
        /\ calls[i].op = "uploadPhoto"
        /\ calls[i].pc = "read"
        /\ calls' = IF ~ok
                    THEN [calls EXCEPT ![i].pc = "done", ![i].reading = "",
                                       ![i].error = "read failed"]
                    ELSE IF NextRead(calls[i].reading) # ""
                    THEN [calls EXCEPT
                            ![i].reading = NextRead(calls[i].reading)]
                    ELSE [calls EXCEPT ![i].pc = "upload", ![i].reading = ""]
        /\ UNCHANGED <<photosTable, storageFiles>>
        /\ PhotosFrame

\* Step 4: the upload has been answered; on an error the call throws.
UploadToStorage ==
    \E i \in 1 .. Len(calls), ok \in BOOLEAN :
        /\ calls[i].op = "uploadPhoto"
        /\ calls[i].pc = "upload"
        /\ LET answer == StorageUpload(storageFiles, calls[i].path[1], ok)
           IN  /\ storageFiles' = answer.files
               /\ calls' = [calls EXCEPT
                               ![i].pc = afterUpload(answer.error),
                               ![i].error = IF afterUpload(answer.error) = "done"
                                            THEN "Failed to upload photo" ELSE ""]
        /\ UNCHANGED photosTable
        /\ PhotosFrame

\* Step 5: the insert has been answered; the call returns the row, or
\* goes on to remove the file it uploaded.  The row takes the number of
\* the call as its id.
UploadInsertPhoto ==
    \E i \in 1 .. Len(calls), ok \in BOOLEAN :
        /\ calls[i].op = "uploadPhoto"
        /\ calls[i].pc = "insert"
        /\ LET answer == InsertPhoto(photosTable,
                                     [id |-> i, rating_id |-> 1,
                                      storage_path |-> calls[i].path[1]], ok)
           IN  /\ photosTable' = answer.table
               /\ calls' = [calls EXCEPT
                               ![i].pc = IF answer.error = "" THEN "done"
                                         ELSE "cleanup",
                               ![i].ret = answer.data]
        /\ UNCHANGED storageFiles
        /\ PhotosFrame

\* The remove after a failed insert has been answered; its result is not
\* looked at, and the call throws.
UploadCleanup ==
    \E i \in 1 .. Len(calls), ok \in BOOLEAN :
        /\ calls[i].op = "uploadPhoto"
        /\ calls[i].pc = "cleanup"
        /\ LET answer == StorageRemove(storageFiles, {calls[i].path[1]}, ok)
           IN  /\ storageFiles' = answer.files
               /\ calls' = [calls EXCEPT
                               ![i].pc = "done",
                               ![i].cleanup = IF answer.error = "" THEN "removed"
                                              ELSE "failed",
                               ![i].error = "Failed to save photo metadata"]
        /\ UNCHANGED photosTable
        /\ PhotosFrame

NextUpload ==
    \/ StartUploadPhoto
    \/ UploadCompress
    \/ UploadRead
    \/ UploadToStorage
    \/ UploadInsertPhoto
    \/ UploadCleanup

SpecUpload == InitPhotos /\ [][NextUpload]_vars

\* deletePhoto is called with the id of a photo that was or could be
\* uploaded.
StartDeletePhoto ==
    \E photoId \in 1 .. MaxPhotoCalls :
        /\ Len(calls) < MaxPhotoCalls
        /\ calls' = Append(calls, PhotoCall("deletePhoto", photoId))
        /\ UNCHANGED <<photosTable, storageFiles>>
        /\ PhotosFrame

\* Step 1: the storage path has been fetched; on an error the call throws.
DeleteFetchPhoto ==
    \E i \in 1 .. Len(calls), ok \in BOOLEAN :
        /\ calls[i].op = "deletePhoto"
        /\ calls[i].pc = "called"
        /\ LET answer == SelectPhoto(photosTable, calls[i].photo_id, ok)
           IN  calls' = [calls EXCEPT
                            ![i].path = answer.data,
                            ![i].pc = IF answer.error = "" THEN "remove" ELSE "done",
                            ![i].error = IF answer.error = "" THEN ""
                                         ELSE "Failed to fetch photo"]
        /\ UNCHANGED <<photosTable, storageFiles>>
        /\ PhotosFrame

\* Step 2: the remove has been answered; the call goes on whatever the
\* answer.
DeleteFromStorage ==
    \E i \in 1 .. Len(calls), ok \in BOOLEAN :
        /\ calls[i].op = "deletePhoto"
        /\ calls[i].pc = "remove"
        /\ LET answer == StorageRemove(storageFiles, {calls[i].path[1]}, ok)
           IN  /\ storageFiles' = answer.files
               /\ calls' = [calls EXCEPT
                               ![i].pc = "delete",
                               ![i].cleanup = IF answer.error = "" THEN "removed"
                                              ELSE "failed"]
        /\ UNCHANGED photosTable
        /\ PhotosFrame

\* Step 3: the delete has been answered; the call returns, or throws on
\* an error.
DeleteFromDatabase ==
    \E i \in 1 .. Len(calls), ok \in BOOLEAN :
        /\ calls[i].op = "deletePhoto"
        /\ calls[i].pc = "delete"
        /\ LET answer == DeletePhotoRow(photosTable, calls[i].photo_id, ok)
           IN  /\ photosTable' = answer.table
               /\ calls' = [calls EXCEPT
                               ![i].pc = "done",
                               ![i].error = IF answer.error = "" THEN ""
                                            ELSE "Failed to delete photo"]
        /\ UNCHANGED storageFiles
        /\ PhotosFrame

NextPhotos ==
    \/ StartUploadPhoto
    \/ UploadCompress
    \/ UploadRead
    \/ UploadToStorage
    \/ UploadInsertPhoto
    \/ UploadCleanup
    \/ StartDeletePhoto
    \/ DeleteFetchPhoto
    \/ DeleteFromStorage
    \/ DeleteFromDatabase

SpecPhotos == InitPhotos /\ [][NextPhotos]_vars

\* A deletePhoto returns in this step without throwing: the row of its
\* photo is not in the table and the file of its path is not in storage.
DeleteRemovesBoth ==
    \A i \in 1 .. Len(calls) :
        (/\ calls[i].op = "deletePhoto"
         /\ calls[i].pc # "done"
         /\ calls'[i].pc = "done"
         /\ calls'[i].error = "")
            => /\ \A r \in photosTable' : r.id # calls[i].photo_id
               /\ calls[i].path[1] \notin storageFiles'

\* C22: whenever deletePhoto returns without throwing, neither the photos
\* row nor the storage file of that photo exists any more.
C22_DeleteRemovesBoth == [][DeleteRemovesBoth]_vars

RowHasFile == \A r \in photosTable : r.storage_path \in storageFiles

\* An uploadPhoto ends in this step: after a failed upload it has inserted
\* no row; a row it returns is in the table and its file is in storage.
UploadOutcome(i) ==
    /\ calls'[i].error = "Failed to upload photo" =>
          /\ photosTable' = photosTable
          /\ \A r \in photosTable' : r.id # i
    /\ calls'[i].error = "" =>
          /\ calls'[i].ret # Absent
          /\ calls'[i].ret[1] \in photosTable'
          /\ calls'[i].ret[1].storage_path \in storageFiles'
    /\ calls'[i].ret # Absent => calls'[i].error = ""

UploadEnds(i) ==
    /\ calls[i].op = "uploadPhoto"
    /\ calls[i].pc # "done"
    /\ calls'[i].pc = "done"

\* After a failed insert the call throws with its file gone from storage.
UploadCleansUp ==
    \A i \in 1 .. Len(calls) :
        UploadEnds(i) =>
            /\ UploadOutcome(i)
            /\ calls'[i].error = "Failed to save photo metadata" =>
                  /\ \A r \in photosTable' : r.id # i
                  /\ calls[i].path[1] \notin storageFiles'

\* After a failed insert the call has asked storage to remove its file
\* before it throws; the file is gone if that request succeeded.
UploadTriesToCleanUp ==
    \A i \in 1 .. Len(calls) :
        UploadEnds(i) =>
            /\ UploadOutcome(i)
            /\ calls'[i].error = "Failed to save photo metadata" =>
                  /\ \A r \in photosTable' : r.id # i
                  /\ calls'[i].cleanup \in {"removed", "failed"}
                  /\ calls'[i].cleanup = "removed" =>
                        calls[i].path[1] \notin storageFiles'
                  /\ storageFiles' \subseteq storageFiles

\* C23 as stated: uploadPhoto leaves no photos row without its file; a
\* failed upload inserts no row and throws; after a failed insert the
\* uploaded file is removed before the call throws; a row is returned only
\* after upload and insert both succeeded.
C23_UploadCleansUp ==
    /\ []RowHasFile
    /\ [][UploadCleansUp]_vars

\* C23, amended: as stated, except that after a failed insert the call
\* only requests the removal of the uploaded file and throws whatever the
\* answer: the file is gone if the removal succeeded and stays in storage,
\* without a photos row, if it failed.
C23_UploadTriesToCleanUp ==
    /\ []RowHasFile
    /\ [][UploadTriesToCleanUp]_vars

\* An insert failed, the removal of the uploaded file failed too: the
\* call threw and its file is in storage without a row.
C23_Witness ==
    \E i \in 1 .. Len(calls) :
        /\ calls[i].op = "uploadPhoto"
        /\ calls[i].pc = "done"
        /\ calls[i].error = "Failed to save photo metadata"
        /\ calls[i].cleanup = "failed"
        /\ calls[i].path[1] \in storageFiles
        /\ \A r \in photosTable : r.storage_path # calls[i].path[1]

(***************************************************************************)
(* RestaurantListTab: filteredRestaurants is the restaurants prop, with    *)
(* the filters that are switched on applied, sorted by the comparator.     *)
(***************************************************************************)

\* Most restaurants of one ski area's list.
MaxListed == 3

\* Rows of restaurant_stats: two rated restaurants with the same total
\* score, one rated with a negative total score, and two without ratings,
\* for which the view gives 0 everywhere and no most common self-service.
ListCatalogue ==
    { [restaurant_id |-> 1, rating_count |-> 2, avg_total_score |-> 2350,
       avg_service |-> 450, avg_ski_haserl |-> 300, avg_food |-> 500,
       avg_sun_terrace |-> 400, avg_interior |-> 350, avg_apres_ski |-> 350,
       eggnog_percentage |-> 100, most_common_self_service |-> Some(0)],
      [restaurant_id |-> 2, rating_count |-> 1, avg_total_score |-> -1500,
       avg_service |-> 100, avg_ski_haserl |-> 50, avg_food |-> 150,
       avg_sun_terrace |-> 100, avg_interior |-> 100, avg_apres_ski |-> 0,
       eggnog_percentage |-> 0, most_common_self_service |-> Some(-2000)],
      [restaurant_id |-> 3, rating_count |-> 0, avg_total_score |-> 0,
       avg_service |-> 0, avg_ski_haserl |-> 0, avg_food |-> 0,
       avg_sun_terrace |-> 0, avg_interior |-> 0, avg_apres_ski |-> 0,
       eggnog_percentage |-> 0, most_common_self_service |-> Absent],
      [restaurant_id |-> 4, rating_count |-> 3, avg_total_score |-> 2350,
       avg_service |-> 500, avg_ski_haserl |-> 450, avg_food |-> 450,
       avg_sun_terrace |-> 500, avg_interior |-> 500, avg_apres_ski |-> 450,
       eggnog_percentage |-> 50, most_common_self_service |-> Some(-1000)],
      [restaurant_id |-> 5, rating_count |-> 0, avg_total_score |-> 0,
       avg_service |-> 0, avg_ski_haserl |-> 0, avg_food |-> 0,
       avg_sun_terrace |-> 0, avg_interior |-> 0, avg_apres_ski |-> 0,
       eggnog_percentage |-> 0, most_common_self_service |-> Absent] }

\* The sort keys the chips of the tab can select.
SortKeys ==
    {"avg_total_score", "avg_service", "avg_ski_haserl", "avg_food",
     "avg_sun_terrace", "avg_interior", "avg_apres_ski"}

\* Lists of different restaurants of the catalogue, in any order.
RestaurantLists ==
    UNION {{l \in [1 .. n -> ListCatalogue] :
               \A i, j \in 1 .. n : i # j => l[i] # l[j]} : n \in 0 .. MaxListed}

\* a < t on an optional number: undefined compares false.
JsLt(a, t) == a # Absent /\ a[1] < t

\* The callback of the filter.  schirmbar_percentage is not a column of
\* restaurant_stats: reading it gives undefined.
passesFilters(r, in) ==
    /\ ~(in.onlyService /\ r.most_common_self_service # Some(0))
    /\ ~(in.onlyEggnog /\ JsLt(Some(r.eggnog_percentage), 50))
    /\ ~(in.onlySchirmbar /\ JsLt(Property(r, "schirmbar_percentage"), 50))

\* Mutant: the selected key alone decides, rated or not.
compareRestaurants_valueOnly(a, b, sortBy) == b[sortBy] - a[sortBy]

\* The comparator of the sort: positive if a goes behind b.
compareRestaurants(a, b, sortBy) ==
    IF a.rating_count = 0 /\ b.rating_count # 0 THEN 1
    ELSE IF a.rating_count # 0 /\ b.rating_count = 0 THEN -1
    ELSE b[sortBy] - a[sortBy]

\* x put into the sorted list l in front of the first element it goes
\* before, behind every element it compares equal to.
InsertRestaurant(l, x, sortBy) ==
    LET before == {i \in 1 .. Len(l) : compareRestaurants(x, l[i], sortBy) < 0}
        at == IF before = {} THEN Len(l) + 1
              ELSE CHOOSE i \in before : \A j \in before : i <= j
    IN  SubSeq(l, 1, at - 1) \o <<x>> \o SubSeq(l, at, Len(l))

RECURSIVE SortRestaurants(_, _)
\* Array.prototype.sort with the comparator: a stable sort.
SortRestaurants(l, sortBy) ==
    IF l = <<>> THEN <<>>
    ELSE InsertRestaurant(SortRestaurants(SubSeq(l, 1, Len(l) - 1), sortBy),
                          l[Len(l)], sortBy)

filteredRestaurants(in) ==
    SortRestaurants(SelectSeq(in.restaurants, LAMBDA r : passesFilters(r, in)),
                    in.sortBy)

InitList ==
    /\ listInput \in [restaurants : RestaurantLists, sortBy : SortKeys,
                       onlyService : BOOLEAN, onlyEggnog : BOOLEAN,
                       onlySchirmbar : BOOLEAN]
    /\ listed = Absent
    /\ votesTable = {}
    /\ photosTable = {}
    /\ storageFiles = {}
    /\ grayedOut = FALSE
    /\ display = NoDisplay
    /\ withEggnogScore = Absent
    /\ avgTotalScore = Absent
    /\ history = <<>>
    /\ ratingsTable = {}
    /\ favoritesTable = {}
    /\ calls = NoCalls
    /\ ScoringIdle
    /\ ValidatorsIdle
    /\ ColorIdle
    /\ TableIdle
    /\ EmojiIdle

\* The tab renders: the memoized list is computed.
RenderRestaurantListTab ==
    /\ listed' = Some(filteredRestaurants(listInput))
    /\ UNCHANGED <<scoringVars, validatorVars, colorVars, tableVars, emojiVars>>
    /\ UNCHANGED <<withEggnogScore, avgTotalScore, history, ratingsTable,
                   favoritesTable, calls>>
    /\ UNCHANGED <<votesTable, photosTable, storageFiles, listInput, grayedOut,
                   display>>

NextList == RenderRestaurantListTab

SpecList == InitList /\ [][NextList]_vars

\* C24: for every sort key and every setting of the filters, no
\* restaurant with rating_count = 0 stands before one with rating_count >
\* 0 in the list of RestaurantListTab, and the values of the selected sort
\* key of the rated restaurants do not increase down the list.
C24_UnratedLastRatedDescending ==
    listed # Absent =>
        LET l == listed[1]
            key == listInput.sortBy
        IN  \A i, j \in 1 .. Len(l) :
                i < j =>
                    /\ ~(l[i].rating_count = 0 /\ l[j].rating_count > 0)
                    /\ (l[i].rating_count > 0 /\ l[j].rating_count > 0) =>
                          l[i][key] >= l[j][key]

\* Handed an unrated restaurant, then one with a negative total score,
\* then one with 23.5, the tab lists them by total score in the opposite
\* order: the unrated one, whose score is 0, behind the one with -15.
C24_Witness ==
    /\ Len(listInput.restaurants) = 3
    /\ listInput.sortBy = "avg_total_score"
    /\ listInput.restaurants[1].restaurant_id = 3
    /\ listInput.restaurants[2].restaurant_id = 2
    /\ listInput.restaurants[3].restaurant_id = 1
    /\ listed # Absent
    /\ Len(listed[1]) = 3
    /\ listed[1][1].restaurant_id = 1
    /\ listed[1][2].restaurant_id = 2
    /\ listed[1][3].restaurant_id = 3

\* What each colour function returns for ratingCount = 1.
RatedColor(c, s) ==
    CASE c = "fill" -> getScoreColor(s, Some(1))
      [] c = "background" -> getScoreBackgroundColor(s, Some(1))
      [] c = "text" -> getScoreTextColor(s, Some(1))
      [] c = "border" -> getScoreBorderColor(s, Some(1))

\* C25: with ratingCount omitted or any value other than 0, negative ones
\* included, each colour function returns what it returns for ratingCount
\* = 1 and the same score, which is never the Unrated colour; for score 0
\* and no ratingCount getScoreColor returns the amber of Low.
C25_OnlyZeroIsUnrated ==
    ratingCount # Some(0) =>
        /\ \A c \in Channels :
              Called(c) =>
                  /\ colors[c] = RatedColor(c, score)
                  /\ colors[c] # Palette["Unrated"][c]
        /\ (score = 0 /\ ratingCount = Absent /\ Called("fill")) =>
              colors.fill = "#F59E0B"

\* The four functions were called for score 0 with a ratingCount of -1 and
\* returned the colours of Low.
C25_Witness ==
    /\ score = 0
    /\ ratingCount = Some(-1)
    /\ \A c \in Channels : colors[c] = Palette["Low"][c]

(***************************************************************************)
(* The screens that colour the score of a restaurant.  Each reads the row  *)
(* of restaurant_stats of restaurant 1: score is its avg_total_score and   *)
(* ratingCount its rating_count.                                           *)
(***************************************************************************)

\* COUNT(rat.id) over the rows the LEFT JOIN gives the restaurant.
RatingCount(table, restaurant) ==
    Cardinality({r \in table : r.restaurant_id = restaurant})

\* Restaurant 1 rated by no device, by one, or by both.
ScreenTables ==
    {t \in SUBSET [id : {1, 2}, restaurant_id : {1}, device_id : DeviceIds,
                   values : RatingValues] :
        /\ \A r \in t : r.id = r.device_id
        /\ \A r1, r2 \in t : r1.device_id = r2.device_id => r1 = r2}

\* isGrayedOut of the map tab: unrated, or excluded by a filter.
isGrayedOut(rc, excluded) == rc = Some(0) \/ excluded

\* score holds a whole count of hundredths: the tables taken are those
\* whose average is one (every table of at most two half-step ratings is).
InitScreens ==
    /\ ratingsTable \in ScreenTables
    /\ AvgTotalScore(ratingsTable, 1)[1].den = 1
    /\ score = AvgTotalScore(ratingsTable, 1)[1].num
    /\ ratingCount = Some(RatingCount(ratingsTable, 1))
    /\ colors = NoColors
    /\ grayedOut \in BOOLEAN
    /\ display = NoDisplay
    /\ votesTable = {}
    /\ photosTable = {}
    /\ storageFiles = {}
    /\ listInput = IdleList
    /\ listed = Absent
    /\ withEggnogScore = Absent
    /\ avgTotalScore = Absent
    /\ history = <<>>
    /\ favoritesTable = {}
    /\ calls = NoCalls
    /\ ScoringIdle
    /\ ValidatorsIdle
    /\ TableIdle
    /\ EmojiIdle

ScreensFrame ==
    /\ UNCHANGED <<scoringVars, validatorVars, colorVars, tableVars, emojiVars>>
    /\ UNCHANGED <<withEggnogScore, avgTotalScore, history, ratingsTable,
                   favoritesTable, calls>>
    /\ UNCHANGED <<votesTable, photosTable, storageFiles, listInput, listed,
                   grayedOut>>

\* renderRestaurant of RestaurantListTab.
RenderListItem ==
    /\ display' = [display EXCEPT
                     !.list_fill = getScoreColor(score, ratingCount),
                     !.list_background =
                         getScoreBackgroundColor(score, ratingCount)]
    /\ ScreensFrame

\* MapPin of RestaurantMapTab.
RenderMapPin ==
    /\ display' = [display EXCEPT
                     !.pin = IF isGrayedOut(ratingCount, grayedOut)
                             THEN "#6B7280"
                             ELSE getScoreColor(score, ratingCount)]
    /\ ScreensFrame

\* MapPopup of RestaurantMapTab.
RenderMapPopup ==
    /\ display' = [display EXCEPT
                     !.popup_fill = getScoreColor(score, ratingCount),
                     !.popup_background =
                         getScoreBackgroundColor(score, ratingCount)]
    /\ ScreensFrame

\* RestaurantDetailScreen: the colour functions are called with the score
\* alone.
RenderDetailScreen ==
    /\ display' = [display EXCEPT
                     !.detail_fill = getScoreColor(score, Absent),
                     !.detail_background =
                         getScoreBackgroundColor(score, Absent)]
    /\ ScreensFrame

NextScreens ==
    \/ RenderListItem
    \/ RenderMapPin
    \/ RenderMapPopup
    \/ RenderDetailScreen

SpecScreens == InitScreens /\ [][NextScreens]_vars

\* The channel each colour shown by a screen belongs to.
DisplayChannel ==
    [list_fill |-> "fill", list_background |-> "background", pin |-> "fill",
     popup_fill |-> "fill", popup_background |-> "background",
     detail_fill |-> "fill", detail_background |-> "background"]

\* C26: a restaurant without ratings, whose avg_total_score the view
\* gives as 0, is shown in gray wherever its score is coloured: in the
\* list tab, on the map pin and in its popup, and on the detail screen.
\* (The gray of a grayed-out pin, #6B7280, is taken as gray too.)
C26_UnratedGrayEverywhere ==
    ratingCount = Some(0) =>
        /\ score = 0
        /\ \A f \in DOMAIN display :
              display[f] # "" =>
                  \/ display[f] = Palette["Unrated"][DisplayChannel[f]]
                  \/ f = "pin" /\ display[f] = "#6B7280"

(***************************************************************************)
(* A caller that changes the arrays getAllEmojiConfigs returned to it in   *)
(* their structure only: elements are added, removed, reordered or         *)
(* replaced, and no field of an entry is assigned.                         *)
(***************************************************************************)

\* returned.splice(i, 1)
CallerSplice ==
    \E k \in 1 .. Len(handles) :
        \E i \in 1 .. Len(arrays[handles[k]]) :
            /\ mutations < MaxMutations
            /\ arrays' = [arrays EXCEPT
                             ![handles[k]] = SubSeq(@, 1, i - 1)
                                             \o SubSeq(@, i + 1, Len(@))]
            /\ UNCHANGED heap
            /\ CallerFrame

\* returned.sort((a, b) => b.priority - a.priority)
CallerSort ==
    \E k \in 1 .. Len(handles) :
        /\ mutations < MaxMutations
        /\ arrays' = [arrays EXCEPT
                         ![handles[k]] = Reverse(SortByPriority(@, heap))]
        /\ UNCHANGED heap
        /\ CallerFrame

InitStructural ==
    /\ ScoringIdle
    /\ ValidatorsIdle
    /\ ColorIdle
    /\ TableIdle
    /\ EmojiIdle
    /\ RestIdle

NextStructural ==
    \/ CallGetAllEmojiConfigs
    \/ CallerPush
    \/ CallerPop
    \/ CallerSplice
    \/ CallerSort
    \/ CallerReverse
    \/ CallerReplace

SpecStructural == InitStructural /\ [][NextStructural]_vars

\* The entries of the array a caller holds as its k-th returned array.
Returned(k) == [i \in 1 .. Len(arrays[handles[k]]) |-> heap[arrays[handles[k]][i]]]

\* The master table is as written, and the arrays handed out are
\* different arrays, none of them the master table.
MasterApart ==
    /\ MasterTable = EMOJI_CONFIGS
    /\ \A k \in 1 .. Len(handles) :
          /\ handles[k] # 1
          /\ \A m \in 1 .. Len(handles) : k # m => handles[k] # handles[m]

\* A getAllEmojiConfigs call of this step returns the six entries in
\* priority order 1 to 6.
ReturnsSixInOrder ==
    Len(handles') > Len(handles) =>
        LET new == arrays'[handles'[Len(handles')]]
        IN  /\ Len(new) = 6
            /\ \A i \in 1 .. Len(new) :
                  /\ heap'[new[i]] = EMOJI_CONFIGS[i]
                  /\ heap'[new[i]].priority = i

\* C27: push, pop, splice, sort, reverse and the replacement of an
\* element on an array returned by getAllEmojiConfigs change neither the
\* length nor the order of the master table: every later
\* getAllEmojiConfigs call returns six entries in priority order 1 to 6,
\* and the arrays of two calls are different arrays.
C27_StructuralIsolation ==
    /\ []MasterApart
    /\ [][ReturnsSixInOrder]_vars

\* Two arrays were returned; the first has been changed twice and is no
\* longer the six entries, the second holds the six entries in order.
C27_Witness ==
    /\ Len(handles) = 2
    /\ mutations = 2
    /\ Returned(1) # EMOJI_CONFIGS
    /\ Len(Returned(1)) # 6
    /\ Returned(2) = EMOJI_CONFIGS
    /\ MasterTable = EMOJI_CONFIGS

====
